---- MODULE Spec2Model ----
(***************************************************************************)
(* Verification model of the NEXUS parsing engine of stsupport (NCL 2.01): *)
(* the tokenizer (NexusToken), the section dispatcher (Nexus), and the     *)
(* character-matrix section parser (CharactersBlock).                      *)
(*                                                                         *)
(* Characters are one-character strings, strings are sequences of          *)
(* characters.  The NUL character is the empty string.               *)
(***************************************************************************)
EXTENDS Integers, Sequences, FiniteSets, TLC

VARIABLES
    phase,      \* which component the behaviour exercises and where it stands
    tk,         \* the NexusToken object (with its input stream)
    blockList,  \* Nexus::blockList, head of the chain of handlers
    blocks,     \* the NexusBlock part of every handler: id, isEnabled, isEmpty, next, nexus, errormsg
    taxa,       \* the TaxaBlock objects: ntax, taxonLabels
    cb,         \* the CharactersBlock object
    ex          \* the locals of a running Nexus::Execute and the log of the host hooks

vars == <<phase, tk, blockList, blocks, taxa, cb, ex>>

\* The({e : x \in {v}}) is e with x standing for the value v: the name x is
\* given to a value that is computed once, as a local variable is in the code
The(S) == CHOOSE e \in S : TRUE

\* ------------------------------------------------------------------------
\* Characters and strings
\* ------------------------------------------------------------------------
NUL == ""
EOFCH == "EOF"          \* (char)EOF, what in.get() yields at end of stream
NL == "\n"
CR == "\r"
TAB == "\t"
DQUOTE == "dquote"      \* the double-quote character
BACKQUOTE == "bquote"   \* the grave accent

toupper(c) ==
    LET Lower == <<"a","b","c","d","e","f","g","h","i","j","k","l","m",
                   "n","o","p","q","r","s","t","u","v","w","x","y","z">>
        Upper == <<"A","B","C","D","E","F","G","H","I","J","K","L","M",
                   "N","O","P","Q","R","S","T","U","V","W","X","Y","Z">>
    IN  IF \E i \in 1..26 : Lower[i] = c
        THEN Upper[CHOOSE i \in 1..26 : Lower[i] = c]
        ELSE c

ToUpperStr(s) == [i \in 1..Len(s) |-> toupper(s[i])]

\* ------------------------------------------------------------------------
\* NexusToken.  The labile flags are the names of the enum NexusTokenFlags;
\* labileFlags is the set of the bits that are on.
\* ------------------------------------------------------------------------
NoX == [thrown |-> FALSE]
XNexus(msg, pos, line, col) ==
    [thrown |-> TRUE, kind |-> "XNexus", msg |-> msg, pos |-> pos, line |-> line, col |-> col]

\* NexusToken::NexusToken( istream& i ), the stream i holding the text inp
NexusToken(inp) ==
    [ inp |-> inp, ipos |-> 0, failbit |-> FALSE,
      atEOF |-> FALSE, atEOL |-> FALSE, comment |-> <<>>,
      filecol |-> 1, fileline |-> 1, filepos |-> 0,
      labileFlags |-> {}, saved |-> NUL, special |-> NUL, token |-> <<>>,
      errormsg |-> "", ch |-> NUL, x |-> NoX, hung |-> FALSE ]

\* istream::peek(): the next character, EOF at the end or on a failed stream
Peek(t) == IF t.failbit \/ t.ipos >= Len(t.inp) THEN EOFCH ELSE t.inp[t.ipos + 1]

\* istream::get(): removes one character; at the end it sets eofbit|failbit
StreamGet(t) ==
    IF t.failbit \/ t.ipos >= Len(t.inp)
    THEN [t EXCEPT !.failbit = TRUE, !.ch = EOFCH]
    ELSE [t EXCEPT !.ipos = t.ipos + 1, !.ch = t.inp[t.ipos + 1]]

AppendToToken(t, c) == [t EXCEPT !.token = Append(t.token, c)]
AppendToComment(t, c) == [t EXCEPT !.comment = Append(t.comment, c)]

\* NexusToken::GetNextChar; the character returned is left in field ch.
\* filepos = in.tellg() is the offset of the get pointer, as the iostream.h
\* library that nexusdefs.h includes gives it
GetNextChar(t) ==
    The({ The({ [b EXCEPT !.filepos = b.ipos,
                          !.ch = IF b.atEOF THEN NUL ELSE IF b.atEOL THEN NL ELSE g.ch]
                : b \in { IF g.ch = CR \/ g.ch = NL
                          THEN [(IF g.ch = CR /\ Peek(g) = NL THEN StreamGet(g) ELSE g)
                                   EXCEPT !.fileline = g.fileline + 1, !.filecol = 1, !.atEOL = TRUE]
                          ELSE IF g.ch = EOFCH
                          THEN [g EXCEPT !.atEOF = TRUE]
                          ELSE [g EXCEPT !.filecol = g.filecol + 1, !.atEOL = FALSE] } })
          : g \in {StreamGet(t)} })

Punctuation == {"(", ")", "[", "]", "{", "}", "/", "\\", ",", ";",
                ":", "=", "*", "'", DQUOTE, BACKQUOTE, "+", "-", "<", ">"}

\* an IsPunctuation for which the signs + and - are no punctuation
IsPunctuationButSigns(t, c) ==
    IF c \in {"+", "-"} THEN FALSE
    ELSE \/ c \in Punctuation \/ c = NUL
         \/ "tildeIsPunctuation" \in t.labileFlags /\ c = "~"
         \/ "useSpecialPunctuation" \in t.labileFlags /\ c = t.special

\* NexusToken::IsPunctuation; strchr also finds the terminating NUL
IsPunctuation(t, c) ==
    LET p0 == (c \in Punctuation) \/ c = NUL
        p1 == IF "tildeIsPunctuation" \in t.labileFlags /\ c = "~" THEN TRUE ELSE p0
        p2 == IF "useSpecialPunctuation" \in t.labileFlags /\ c = t.special THEN TRUE ELSE p1
    IN  IF "hyphenNotPunctuation" \in t.labileFlags /\ c = "-" THEN FALSE ELSE p2

\* NexusToken::IsWhitespace; strchr also finds the terminating NUL
IsWhitespace(t, c) ==
    LET ws == c \in {" ", TAB, NL, NUL}
    IN  IF "newlineIsToken" \in t.labileFlags /\ c = NL THEN FALSE ELSE ws

Throw(t, msg) ==
    [t EXCEPT !.errormsg = msg, !.x = XNexus(msg, t.filepos, t.fileline, t.filecol)]

\* NexusToken::GetComment, the loop over the rest of the comment
RECURSIVE GetCommentLoop(_, _, _, _)
GetCommentLoop(t, level, printing, command) ==
    The({ LET lv == IF g.ch = "]" THEN level - 1 ELSE IF g.ch = "[" THEN level + 1 ELSE level
          IN  IF g.atEOF THEN g
              ELSE IF lv = 0 THEN g
              ELSE GetCommentLoop(IF printing THEN AppendToComment(g, g.ch)
                                  ELSE IF command THEN AppendToToken(g, g.ch)
                                  ELSE g,
                                  lv, printing, command)
          : g \in {GetNextChar(t)} })

\* NexusToken::GetComment
GetComment(t) ==
    The({ IF g.atEOF THEN Throw(g, "Unexpected end of file inside comment")
          ELSE LET printing == g.ch = "!"
                   command == g.ch = "&" /\ "saveCommandComments" \in g.labileFlags /\ g.ch # "!"
               IN  The({ IF printing THEN [h EXCEPT !.comment = <<>>] ELSE h
                         : h \in {GetCommentLoop(IF command THEN AppendToToken(g, g.ch) ELSE g,
                                                 1, printing, command)} })
          : g \in {GetNextChar(t)} })

\* NexusToken::GetCurlyBracketedToken
RECURSIVE GetCurlyBracketedToken(_, _)
GetCurlyBracketedToken(t, level) ==
    The({ LET lv == IF g.ch = "}" THEN level - 1 ELSE IF g.ch = "{" THEN level + 1 ELSE level
          IN  IF g.atEOF THEN g
              ELSE IF lv = 0 THEN AppendToToken(g, g.ch)
              ELSE GetCurlyBracketedToken(AppendToToken(g, g.ch), lv)
          : g \in {GetNextChar(t)} })

\* NexusToken::GetDoubleQuotedToken
RECURSIVE GetDoubleQuotedToken(_)
GetDoubleQuotedToken(t) ==
    The({ IF g.atEOF THEN g
          ELSE IF g.ch = DQUOTE THEN g
          ELSE GetDoubleQuotedToken(AppendToToken(g, IF g.ch = "_" THEN " " ELSE g.ch))
          : g \in {GetNextChar(t)} })

\* a GetQuoted that copies an underscore as it stands
RECURSIVE GetQuotedLiteral(_)
GetQuotedLiteral(t) ==
    The({ IF g.atEOF THEN g
          ELSE IF g.ch = "'" /\ g.saved = "'"
               THEN GetQuotedLiteral([AppendToToken(g, g.ch) EXCEPT !.saved = NUL])
          ELSE IF g.ch = "'" /\ g.saved = NUL
               THEN GetQuotedLiteral([g EXCEPT !.saved = "'"])
          ELSE IF g.saved = "'"
               THEN [g EXCEPT !.saved = g.ch]
          ELSE GetQuotedLiteral(AppendToToken(g, g.ch))
          : g \in {GetNextChar(t)} })

\* NexusToken::GetQuoted
RECURSIVE GetQuoted(_)
GetQuoted(t) ==
    The({ IF g.atEOF THEN g
          ELSE IF g.ch = "'" /\ g.saved = "'"
               THEN GetQuoted([AppendToToken(g, g.ch) EXCEPT !.saved = NUL])
          ELSE IF g.ch = "'" /\ g.saved = NUL
               THEN GetQuoted([g EXCEPT !.saved = "'"])
          ELSE IF g.saved = "'"
               THEN [g EXCEPT !.saved = g.ch]
          ELSE GetQuoted(AppendToToken(g, IF g.ch = "_" THEN " " ELSE g.ch))
          : g \in {GetNextChar(t)} })

\* Does the unread rest of the stream hold a semicolon?
SemicolonAhead(t) == \E i \in (t.ipos + 1)..Len(t.inp) : t.inp[i] = ";"

\* NexusToken::GetParentheticalToken, the trailing loop "while (in.peek() != ';')":
\* it reads with in.get(), not with GetNextChar
RECURSIVE ReadToSemicolon(_)
ReadToSemicolon(t) ==
    IF Peek(t) = ";" THEN t
    ELSE ReadToSemicolon(The({AppendToToken(g, g.ch) : g \in {StreamGet(t)}}))

\* NexusToken::GetParentheticalToken, the loop up to the matching ')'
RECURSIVE GetParenLoop(_, _)
GetParenLoop(t, level) ==
    The({ LET lv == IF g.ch = ")" THEN level - 1 ELSE IF g.ch = "(" THEN level + 1 ELSE level
          IN  IF g.atEOF THEN g
              ELSE IF lv = 0 THEN AppendToToken(g, g.ch)
              ELSE GetParenLoop(AppendToToken(g, g.ch), lv)
          : g \in {GetNextChar(t)} })

\* NexusToken::GetParentheticalToken; without a semicolon ahead the trailing
\* loop appends (char)EOF for ever and the call never returns
GetParentheticalToken(t) ==
    The({ IF g.failbit \/ ~SemicolonAhead(g)
          THEN [g EXCEPT !.hung = TRUE, !.ipos = Len(g.inp), !.failbit = TRUE]
          ELSE ReadToSemicolon(g)
          : g \in {GetParenLoop(t, 1)} })

\* NexusToken::GetNextToken, skipping of the leading whitespace
RECURSIVE SkipLeading(_)
SkipLeading(t) ==
    IF IsWhitespace(t, t.ch) /\ ~t.atEOF THEN SkipLeading(GetNextChar(t)) ELSE t

\* NexusToken::GetNextToken, the main loop; the pull ends with the flags cleared
\* unless it leaves by an exception
RECURSIVE TokenLoop(_)
TokenLoop(t) ==
    IF "singleCharacterToken" \in t.labileFlags /\ Len(t.token) > 0 THEN t
    ELSE
    The({ IF g.atEOF THEN g
          ELSE IF g.ch = NL /\ "newlineIsToken" \in g.labileFlags
               THEN IF Len(g.token) > 0
                    THEN [g EXCEPT !.atEOL = FALSE, !.saved = g.ch]
                    ELSE [AppendToToken(g, g.ch) EXCEPT !.atEOL = TRUE]
          ELSE IF IsWhitespace(g, g.ch)
               THEN IF Len(g.token) > 0 THEN g ELSE TokenLoop(g)
          ELSE IF g.ch = "_"
               THEN TokenLoop(AppendToToken(g, " "))
          ELSE IF g.ch = "["
               THEN The({ IF h.x.thrown \/ Len(h.token) > 0 THEN h ELSE TokenLoop(h)
                          : h \in {GetComment(g)} })
          ELSE IF g.ch = "(" /\ "parentheticalToken" \in g.labileFlags
               THEN GetParentheticalToken(AppendToToken(g, g.ch))
          ELSE IF g.ch = "{" /\ "curlyBracketedToken" \in g.labileFlags
               THEN GetCurlyBracketedToken(AppendToToken(g, g.ch), 1)
          ELSE IF g.ch = DQUOTE /\ "doubleQuotedToken" \in g.labileFlags
               THEN GetDoubleQuotedToken(g)
          ELSE IF g.ch = "'"
               THEN IF Len(g.token) > 0
                    THEN The({ IF h.ch = "'" THEN AppendToToken(h, h.ch)
                               ELSE Throw(h, "Expecting second single quote character")
                               : h \in {GetNextChar(g)} })
                    ELSE GetQuoted(g)
          ELSE IF IsPunctuation(g, g.ch)
               THEN IF Len(g.token) > 0 THEN [g EXCEPT !.saved = g.ch]
                    ELSE AppendToToken(g, g.ch)
          ELSE TokenLoop(AppendToToken(g, g.ch))
          : g \in {IF t.saved # NUL THEN [t EXCEPT !.ch = t.saved, !.saved = NUL]
                   ELSE GetNextChar(t)} })

\* NexusToken::GetNextToken
GetNextToken(t0) ==
    LET t1 == [t0 EXCEPT !.token = <<>>, !.x = NoX, !.ch = " "]
    IN  The({ IF t3.x.thrown \/ t3.hung
              THEN [t3 EXCEPT !.ch = NUL]
              ELSE [t3 EXCEPT !.labileFlags = {}, !.ch = NUL]
              : t3 \in {TokenLoop(IF t1.saved = NUL \/ IsWhitespace(t1, t1.saved)
                                  THEN The({[s EXCEPT !.saved = s.ch] : s \in {SkipLeading(t1)}})
                                  ELSE t1)} })

\* NexusToken::SetLabileFlagBit
SetLabileFlagBit(t, bit) == [t EXCEPT !.labileFlags = t.labileFlags \cup {bit}]

\* NexusToken::SetSpecialPunctuationCharacter
SetSpecialPunctuationCharacter(t, c) == [t EXCEPT !.special = c]

\* NexusToken::Equals with respect_case = false
Equals(t, s) == ToUpperStr(t.token) = ToUpperStr(s)

\* ------------------------------------------------------------------------
\* Keywords and small string helpers
\* ------------------------------------------------------------------------

\* the words Nexus::Execute compares tokens with
NexusWords ==
    [NEXUS |-> <<"#","N","E","X","U","S">>,
     BEGIN |-> <<"B","E","G","I","N">>,
     END |-> <<"E","N","D">>,
     ENDBLOCK |-> <<"E","N","D","B","L","O","C","K">>,
     SHOWALL |-> <<"&","S","H","O","W","A","L","L">>,
     LEAVE |-> <<"&","L","E","A","V","E">>]

\* the id of a TaxaBlock and the words TaxaBlock::Read compares tokens with
TaxaWords ==
    [TAXA |-> <<"T","A","X","A">>,
     DIMENSIONS |-> <<"D","I","M","E","N","S","I","O","N","S">>,
     NTAX |-> <<"N","T","A","X">>,
     TAXLABELS |-> <<"T","A","X","L","A","B","E","L","S">>,
     END |-> <<"E","N","D">>,
     ENDBLOCK |-> <<"E","N","D","B","L","O","C","K">>]

\* the id of a CharactersBlock and the words CharactersBlock::Read and its handlers compare tokens with
CharWords ==
    [CHARACTERS |-> <<"C","H","A","R","A","C","T","E","R","S">>,
     DIMENSIONS |-> <<"D","I","M","E","N","S","I","O","N","S">>,
     NEWTAXA |-> <<"N","E","W","T","A","X","A">>,
     NTAX |-> <<"N","T","A","X">>,
     NCHAR |-> <<"N","C","H","A","R">>,
     FORMAT |-> <<"F","O","R","M","A","T">>,
     LABELS |-> <<"L","A","B","E","L","S">>,
     NOLABELS |-> <<"N","O","L","A","B","E","L","S">>,
     INTERLEAVE |-> <<"I","N","T","E","R","L","E","A","V","E">>,
     ELIMINATE |-> <<"E","L","I","M","I","N","A","T","E">>,
     TAXLABELS |-> <<"T","A","X","L","A","B","E","L","S">>,
     CHARSTATELABELS |-> <<"C","H","A","R","S","T","A","T","E","L","A","B","E","L","S">>,
     CHARLABELS |-> <<"C","H","A","R","L","A","B","E","L","S">>,
     STATELABELS |-> <<"S","T","A","T","E","L","A","B","E","L","S">>,
     MATRIX |-> <<"M","A","T","R","I","X">>,
     END |-> <<"E","N","D">>,
     ENDBLOCK |-> <<"E","N","D","B","L","O","C","K">>]

Digits == <<"0","1","2","3","4","5","6","7","8","9">>
IsDigit(c) == \E d \in 1..10 : Digits[d] = c
DigitVal(c) == (CHOOSE d \in 1..10 : Digits[d] = c) - 1

RECURSIVE AtoiDigits(_, _, _)
AtoiDigits(s, i, acc) ==
    IF i > Len(s) \/ ~IsDigit(s[i]) THEN acc
    ELSE AtoiDigits(s, i + 1, acc * 10 + DigitVal(s[i]))

RECURSIVE AtoiSkip(_, _)
AtoiSkip(s, i) == IF i <= Len(s) /\ s[i] \in {" ", TAB, NL} THEN AtoiSkip(s, i + 1) ELSE i

\* atoi( s.c_str() ): leading blanks, an optional sign, then decimal digits
atoi(s) ==
    LET i == AtoiSkip(s, 1)
    IN  IF i <= Len(s) /\ s[i] = "-" THEN 0 - AtoiDigits(s, i + 1, 0)
        ELSE IF i <= Len(s) /\ s[i] = "+" THEN AtoiDigits(s, i + 1, 0)
        ELSE AtoiDigits(s, i, 0)

\* ------------------------------------------------------------------------
\* The objects a behaviour works on, bundled for the parsing operators:
\* m.tk the tokenizer, m.blocks the handlers, m.taxa, m.cb
\* ------------------------------------------------------------------------
NULL == "NULL"

Pull(m) == [m EXCEPT !.tk = GetNextToken(m.tk)]
PullWith(m, bits) == [m EXCEPT !.tk = GetNextToken([m.tk EXCEPT !.labileFlags = @ \cup bits])]

\* an exception is in flight, or the call will never return
Stopped(m) == m.tk.x.thrown \/ m.tk.hung

\* errormsg = msg; throw XNexus( errormsg, token.GetFilePosition(), ... ) in handler h
ThrowB(m, h, msg) ==
    [m EXCEPT !.blocks[h].errormsg = msg,
              !.tk.x = XNexus(msg, m.tk.filepos, m.tk.fileline, m.tk.filecol)]

\* an exception of a class other than XNexus
ThrowOther(m, kind) == [m EXCEPT !.tk.x = [thrown |-> TRUE, kind |-> kind]]

\* a loop that pulls for ever at end of input
Hang(m) == [m EXCEPT !.tk.hung = TRUE]

\* the do/while of the handlers' Read that skips an unrecognized command
RECURSIVE SkipCommand(_, _)
SkipCommand(m, h) ==
    The({ IF Stopped(p) THEN p
          ELSE IF ~p.tk.atEOF /\ ~Equals(p.tk, <<";">>) THEN SkipCommand(p, h)
          ELSE IF p.tk.atEOF THEN ThrowB(p, h, "Unexpected end of file encountered")
          ELSE p
          : p \in {Pull(m)} })

\* the END / ENDBLOCK command: the semicolon that follows it
ExpectSemicolon(m, h, msg) ==
    The({ IF Stopped(p) THEN p
          ELSE IF ~Equals(p.tk, <<";">>) THEN ThrowB(p, h, msg)
          ELSE p
          : p \in {Pull(m)} })

\* ------------------------------------------------------------------------
\* TaxaBlock
\* ------------------------------------------------------------------------
NewNexusBlock(class, id) ==
    [class |-> class, id |-> id, isEnabled |-> TRUE, isEmpty |-> TRUE,
     next |-> NULL, nexus |-> NULL, errormsg |-> ""]

NewTaxa == [ntax |-> 0, taxonLabels |-> <<>>]

\* TaxaBlock::Reset
TaxaReset(m, h) ==
    [m EXCEPT !.blocks[h].isEmpty = TRUE, !.taxa[h] = NewTaxa]

\* TaxaBlock::Read, the TAXLABELS loop "for( i = 0; i < ntax; i++ )"
RECURSIVE TaxaLabelsLoop(_, _, _)
TaxaLabelsLoop(m, h, i) ==
    IF i >= m.taxa[h].ntax THEN m
    ELSE The({ IF Stopped(p) THEN p
               ELSE TaxaLabelsLoop([p EXCEPT !.taxa[h].taxonLabels = Append(@, p.tk.token)], h, i + 1)
               : p \in {Pull(m)} })

\* TaxaBlock::Read, the DIMENSIONS command
TaxaDimensions(m, h) ==
    The({ IF Stopped(p1) THEN p1
          ELSE IF ~Equals(p1.tk, TaxaWords.NTAX) THEN ThrowB(p1, h, "Expecting NTAX keyword")
          ELSE
    The({ IF Stopped(p2) THEN p2
          ELSE IF ~Equals(p2.tk, <<"=">>) THEN ThrowB(p2, h, "Expecting '='")
          ELSE
    The({ IF Stopped(p3) THEN p3
          ELSE
    The({ IF n <= 0 THEN ThrowB([p3 EXCEPT !.taxa[h].ntax = n], h, "NTAX should be greater than zero")
          ELSE ExpectSemicolon([p3 EXCEPT !.taxa[h].ntax = n], h,
                               "Expecting ';' to terminate DIMENSIONS command")
          : n \in {atoi(p3.tk.token)} })
          : p3 \in {Pull(p2)} })
          : p2 \in {Pull(p1)} })
          : p1 \in {Pull(m)} })

\* TaxaBlock::Read, entry: the semicolon after the block name
TaxaReadBegin(m, h) ==
    ExpectSemicolon([m EXCEPT !.blocks[h].isEmpty = FALSE], h,
                    "Expecting ';' after TAXA block name")

\* TaxaBlock::Read, one turn of its command loop; done is set when the loop breaks
TaxaReadCommand(m, h) ==
    The({ IF Stopped(p) THEN p
          ELSE IF Equals(p.tk, TaxaWords.DIMENSIONS) THEN TaxaDimensions(p, h)
          ELSE IF Equals(p.tk, TaxaWords.TAXLABELS)
               THEN IF p.taxa[h].ntax <= 0
                    THEN ThrowB(p, h, "NTAX must be specified before TAXLABELS command")
                    ELSE The({ IF Stopped(q) THEN q
                               ELSE ExpectSemicolon(q, h, "Expecting ';' to terminate TAXLABELS command")
                               : q \in {TaxaLabelsLoop(p, h, 0)} })
          ELSE IF Equals(p.tk, TaxaWords.END) \/ Equals(p.tk, TaxaWords.ENDBLOCK)
               THEN The({ IF Stopped(q) THEN q ELSE [q EXCEPT !.done = TRUE]
                          : q \in {ExpectSemicolon(p, h, "Expecting ';' to terminate the END command")} })
          ELSE SkipCommand(p, h)
          : p \in {Pull(m)} })

\* ------------------------------------------------------------------------
\* DiscreteDatum / DiscreteMatrix: a cell is its states array; NULL (missing)
\* is the empty sequence, gap is <<0>>, one state is <<1, v>>, several states
\* are <<n, v1, ..., vn, polymorphic>>
\* ------------------------------------------------------------------------
NullStates == <<>>

\* an AddState that puts the new state in front of the one the datum holds
DatumAddStateInFront(d, value) ==
    IF d = NullStates \/ d[1] = 0 THEN <<1, value>>
    ELSE IF d[1] = 1 THEN <<2, value, d[2], 0>>
    ELSE <<d[1] + 1, value>> \o SubSeq(d, 2, d[1] + 1) \o <<0>>

\* DiscreteMatrix::AddState( DiscreteDatum& d, int value )
DatumAddState(d, value) ==
    LET oldns == IF d = NullStates THEN 0 ELSE d[1]     \* GetNumStates( d )
        IsMissing == d = NullStates
        IsGap == ~(d = NullStates \/ d[1] > 0)
    IN  IF IsMissing THEN <<1, value>>
        ELSE IF IsGap THEN <<1, value>>
        ELSE IF oldns = 1 THEN <<2, d[2], value, 0>>
        ELSE <<oldns + 1>> \o SubSeq(d, 2, oldns + 1) \o <<value, 0>>

\* DiscreteMatrix::SetPolymorphic( DiscreteDatum& d, int value )
DatumSetPolymorphic(d, value) ==
    IF d = NullStates \/ d[1] < 2 THEN d ELSE [d EXCEPT ![d[1] + 2] = value]

\* DiscreteDatum::CopyFrom
DatumCopyFrom(d, other) ==
    IF other = NullStates THEN NullStates
    ELSE IF other[1] = 0 THEN <<0>>
    ELSE IF other[1] = 1 THEN <<1, other[2]>>
    ELSE SubSeq(other, 1, other[1] + 2)

\* DiscreteMatrix::SetState( DiscreteDatum& d, int value )
DatumSetState(d, value) == <<1, value>>

\* DiscreteMatrix::GetNumStates, IsGap and IsMissing of a datum
DatumGetNumStates(d) == IF d = NullStates THEN 0 ELSE d[1]
DatumIsGap(d) == IF d = NullStates \/ d[1] > 0 THEN 0 ELSE 1
DatumIsMissing(d) == IF d = NullStates THEN 1 ELSE 0

\* an IsPolymorphic that reads the last cell of the array whatever its length
DatumIsPolymorphicLastCell(d) == IF d = NullStates THEN 0 ELSE d[Len(d)]

\* DiscreteMatrix::IsPolymorphic( DiscreteDatum& d )
DatumIsPolymorphic(d) == IF d = NullStates \/ d[1] < 2 THEN 0 ELSE d[d[1] + 2]

\* DiscreteMatrix::GetState( DiscreteDatum& d, int i ): the value returned,
\* or the failure of one of the four assertions at its head
DatumGetState(d, i) ==
    IF DatumIsMissing(d) = 1 \/ DatumIsGap(d) = 1 \/ i < 0 \/ ~(i < d[1])
    THEN [ret |-> 0, assert |-> TRUE]
    ELSE [ret |-> d[i + 2], assert |-> FALSE]

NoMatrix == [alloc |-> FALSE, nrows |-> 0, ncols |-> 0, data |-> <<>>]

\* DiscreteMatrix::DiscreteMatrix( rows, cols ): every datum starts with states NULL
DiscreteMatrix(rows, cols) ==
    [alloc |-> TRUE, nrows |-> rows, ncols |-> cols,
     data |-> [i \in 1..rows |-> [j \in 1..cols |-> NullStates]]]

\* the assertions at the head of the (i, j) accessors of DiscreteMatrix
MatrixIndexOk(mx, i, j) == mx.alloc /\ i >= 0 /\ i < mx.nrows /\ j >= 0 /\ j < mx.ncols

MatrixApply(mx, i, j, d) == [mx EXCEPT !.data[i + 1][j + 1] = d]
MatrixCell(mx, i, j) == mx.data[i + 1][j + 1]

\* DiscreteMatrix::AddRows( nAddRows ): the rows there are stay, the new rows
\* are rows of new DiscreteDatum objects
AddRows(mx, nAddRows) ==
    [mx EXCEPT !.nrows = @ + nAddRows,
               !.data = @ \o [i \in 1..nAddRows |-> [j \in 1..mx.ncols |-> NullStates]]]

\* DiscreteMatrix::DuplicateRow( row, count, startCol, endCol ): the matrix
\* after the call, the value returned, and whether an assertion failed; the
\* assignment data[row+i][col] = data[row][col] gives the cell the states
\* array of the cell copied
DuplicateRow(mx, row, count, startCol, endCol) ==
    LET last == IF endCol = -1 THEN mx.ncols - 1 ELSE endCol
        nNewRows == IF row + count > mx.nrows THEN row + count - mx.nrows ELSE 0
    IN  IF ~(mx.alloc /\ row >= 0 /\ row < mx.nrows /\ startCol >= 0 /\ startCol < mx.ncols
             /\ last > startCol /\ last < mx.ncols)
        THEN [mx |-> mx, ret |-> 0, assert |-> TRUE]
        ELSE The({ [mx |-> [grown EXCEPT !.data =
                              [i \in 1..grown.nrows |->
                                 [j \in 1..grown.ncols |->
                                    IF i - 1 > row /\ i - 1 < row + count /\ j - 1 >= startCol /\ j - 1 <= last
                                    THEN grown.data[row + 1][j] ELSE grown.data[i][j]]]],
                    ret |-> nNewRows, assert |-> FALSE]
                   : grown \in {IF nNewRows > 0 THEN AddRows(mx, nNewRows) ELSE mx} })

\* ------------------------------------------------------------------------
\* CharactersBlock
\* ------------------------------------------------------------------------
NoArray == [alloc |-> FALSE, a |-> <<>>]
Array(s) == [alloc |-> TRUE, a |-> s]

\* CharactersBlock::CharactersBlock( tb, ab ); tb is the handler named taxaRef
NewCharactersBlock(taxaRef) ==
    [ taxa |-> taxaRef, callbackSet |-> FALSE,
      ntax |-> 0, ntaxTotal |-> 0, nchar |-> 0, ncharTotal |-> 0,
      newchar |-> TRUE, newtaxa |-> FALSE, interleaving |-> FALSE,
      transposing |-> FALSE, respectingCase |-> FALSE, labels |-> TRUE,
      tokens |-> FALSE, missing |-> "?", gap |-> NUL, matchchar |-> NUL,
      symbols |-> <<"0", "1">>,
      matrix |-> NoMatrix, charPos |-> NoArray, taxonPos |-> NoArray,
      activeTaxon |-> NoArray, activeChar |-> NoArray,
      eliminated |-> {}, charLabels |-> <<>>, charStates |-> <<>> ]

\* CharactersBlock::Reset; ntaxTotal, ncharTotal and tokens keep their values
CharReset(m, h) ==
    [m EXCEPT !.blocks[h].isEmpty = TRUE,
              !.cb = [@ EXCEPT !.ntax = 0, !.nchar = 0, !.newchar = TRUE, !.newtaxa = FALSE,
                               !.interleaving = FALSE, !.transposing = FALSE,
                               !.respectingCase = FALSE, !.labels = TRUE,
                               !.missing = "?", !.gap = NUL, !.matchchar = NUL,
                               !.charLabels = <<>>, !.charStates = <<>>,
                               !.symbols = <<"0", "1">>,
                               !.matrix = NoMatrix, !.charPos = NoArray, !.taxonPos = NoArray,
                               !.activeTaxon = NoArray, !.activeChar = NoArray,
                               !.eliminated = {}]]

\* CharactersBlock::IsEliminated
IsEliminated(c, origCharIndex) ==
    IF c.eliminated = {} THEN FALSE ELSE origCharIndex \in c.eliminated

\* the value BuildCharPosArray stores at original index j: the number of
\* earlier indices that were kept, or -1
RECURSIVE CharPosValues(_, _, _, _)
CharPosValues(c, check_eliminated, j, k) ==
    IF j >= c.ncharTotal THEN <<>>
    ELSE IF check_eliminated /\ IsEliminated(c, j)
         THEN <<-1>> \o CharPosValues(c, check_eliminated, j + 1, k)
         ELSE <<k>> \o CharPosValues(c, check_eliminated, j + 1, k + 1)

\* CharactersBlock::BuildCharPosArray; every caller tests charPos == NULL
\* first, so its assertion of that never fails
BuildCharPosArray(c, check_eliminated) ==
    [c EXCEPT !.charPos = Array(CharPosValues(c, check_eliminated, 0, 0))]

\* the label commands' "if( charPos == NULL ) BuildCharPosArray();"
EnsureCharPos(m) ==
    IF m.cb.charPos.alloc THEN m ELSE [m EXCEPT !.cb = BuildCharPosArray(@, FALSE)]

\* CharactersBlock::GetCharPos
GetCharPos(c, origCharIndex) == c.charPos.a[origCharIndex + 1]

\* CharactersBlock::GetOrigCharIndex( j ): the value returned, whether the
\* assertion k < ncharTotal failed, and whether charPos was read where it
\* has no element (charPos is NULL or shorter than ncharTotal)
RECURSIVE OrigCharIndexLoop(_, _, _)
OrigCharIndexLoop(c, j, k) ==
    IF k >= c.ncharTotal THEN [ret |-> k, assert |-> TRUE, undefined |-> FALSE]
    ELSE IF ~c.charPos.alloc \/ k < 0 \/ k >= Len(c.charPos.a)
         THEN [ret |-> k, assert |-> FALSE, undefined |-> TRUE]
    ELSE IF c.charPos.a[k + 1] < j THEN OrigCharIndexLoop(c, j, k + 1)
    ELSE [ret |-> k, assert |-> FALSE, undefined |-> FALSE]

GetOrigCharIndex(c, j) == OrigCharIndexLoop(c, j, j)

\* GetCharPos( origCharIndex ) with its assertions and the bound of the array
GetCharPosChecked(c, origCharIndex) ==
    IF ~(c.charPos.alloc /\ origCharIndex >= 0 /\ origCharIndex < c.ncharTotal)
    THEN [ret |-> -1, assert |-> TRUE, undefined |-> FALSE]
    ELSE IF origCharIndex >= Len(c.charPos.a) THEN [ret |-> -1, assert |-> FALSE, undefined |-> TRUE]
    ELSE [ret |-> GetCharPos(c, origCharIndex), assert |-> FALSE, undefined |-> FALSE]

\* position of label s in a LabelList, counted from 0, or -1
RECURSIVE FindLabel(_, _, _)
FindLabel(list, s, k) ==
    IF k > Len(list) THEN -1
    ELSE IF list[k] = s THEN k - 1
    ELSE FindLabel(list, s, k + 1)

\* CharactersBlock::CharLabelToNumber
CharLabelToNumber(c, s) == FindLabel(c.charLabels, s, 1) + 1

\* ------------------------------------------------------------------------
\* SetReader, writing into m.nxsset
\* ------------------------------------------------------------------------

\* SetReader::SetReader: the set handed in is emptied
SetReader(m) == [m EXCEPT !.nxsset = {}]

\* the members SetReader::AddRange inserts, already shifted to offset 0
RangeMembers(first, last, modulus) ==
    {i \in (first - 1)..(last - 1) : ~(modulus > 0 /\ (i - first + 1) % modulus # 0)}

\* SetReader::AddRange: FALSE when the range is refused
AddRangeOk(first, last, max) == ~(last > max \/ first < 1 \/ first > last)

AddRange(m, first, last, modulus) ==
    [m EXCEPT !.nxsset = @ \cup RangeMembers(first, last, modulus)]

\* a GetTokenValue that reports an unknown label as a value out of range
GetTokenValueOutOfRange(m, h) ==
    The({ IF v = 0
          THEN ThrowB(m, h, "Character number out of range (or range incorrectly specified) in set specification")
          ELSE [m EXCEPT !.v = v]
          : v \in {The({IF v0 = 0 THEN CharLabelToNumber(m.cb, m.tk.token) ELSE v0
                        : v0 \in {atoi(m.tk.token)}})} })

\* SetReader::GetTokenValue for a charset; the value is left in m.v
GetTokenValue(m, h) ==
    The({ IF v = 0
          THEN ThrowB(m, h, "Set element not a number and not a valid character label")
          ELSE [m EXCEPT !.v = v]
          : v \in {The({IF v0 = 0 THEN CharLabelToNumber(m.cb, m.tk.token) ELSE v0
                        : v0 \in {atoi(m.tk.token)}})} })

\* SetReader::Run; r holds rangeBegin, rangeEnd, insideRange, modValue
RECURSIVE SetReaderRun(_, _, _, _)
SetReaderRun(m, h, max, r) ==
    The({ IF Stopped(p) THEN p
          ELSE IF Equals(p.tk, <<"-">>)
               THEN IF r.insideRange THEN ThrowB(p, h, "The symbol '-' is out of place here")
                    ELSE SetReaderRun(p, h, max, [r EXCEPT !.insideRange = TRUE])
          ELSE IF Equals(p.tk, <<".">>)
               THEN IF ~r.insideRange
                    THEN ThrowB(p, h, "The symbol '.' can only be used to specify the end of a range")
                    ELSE SetReaderRun(p, h, max, [r EXCEPT !.rangeEnd = max])
          ELSE IF Equals(p.tk, <<"\\">>)
               THEN IF ~r.insideRange
                    THEN ThrowB(p, h, "The symbol '\\' can only be used after the end of a range has been specified")
                    ELSE The({ IF Stopped(q) THEN q
                               ELSE The({ IF mv <= 0 THEN ThrowB(q, h, "The modulus value specified is invalid; must be greater than 0")
                                          ELSE SetReaderRun(q, h, max, [r EXCEPT !.modValue = mv])
                                          : mv \in {atoi(q.tk.token)} })
                               : q \in {Pull(p)} })
          ELSE IF r.insideRange /\ r.rangeEnd = -1
               THEN The({ IF Stopped(q) THEN q
                          ELSE SetReaderRun(q, h, max, [r EXCEPT !.rangeEnd = q.v])
                          : q \in {GetTokenValue(p, h)} })
          ELSE IF r.insideRange \/ r.rangeBegin # -1
               THEN LET last == IF r.insideRange THEN r.rangeEnd ELSE r.rangeBegin
                    IN  IF ~AddRangeOk(r.rangeBegin, last, max) THEN ThrowB(p, h, "Character number out of range (or range incorrectly specified) in set specification")
                        ELSE The({ IF Equals(a.tk, <<";">>) THEN [a EXCEPT !.retval = TRUE]
                                   ELSE IF Equals(a.tk, <<",">>) THEN [a EXCEPT !.retval = FALSE]
                                   ELSE The({ IF Stopped(q) THEN q
                                              ELSE SetReaderRun(q, h, max,
                                                     [r EXCEPT !.rangeBegin = q.v, !.rangeEnd = -1,
                                                               !.insideRange = FALSE])
                                              : q \in {GetTokenValue(a, h)} })
                                   : a \in {AddRange(p, r.rangeBegin, last, r.modValue)} })
          ELSE IF Equals(p.tk, <<";">>) THEN [p EXCEPT !.retval = TRUE]
          ELSE IF Equals(p.tk, <<",">>) THEN [p EXCEPT !.retval = FALSE]
          ELSE IF Equals(p.tk, <<"A","L","L">>)
               THEN SetReaderRun(IF AddRangeOk(1, max, max) THEN AddRange(p, 1, max, 0) ELSE p,
                                 h, max, [r EXCEPT !.rangeBegin = 1, !.rangeEnd = max])
          ELSE The({ IF Stopped(q) THEN q
                     ELSE SetReaderRun(q, h, max, [r EXCEPT !.rangeBegin = q.v, !.rangeEnd = -1])
                     : q \in {GetTokenValue(p, h)} })
          : p \in {Pull(m)} })

\* the token pulled at end of input once nothing is left: every later pull
\* gives the same empty token
Exhausted(m) == m.tk.atEOF /\ m.tk.token = <<>>

\* TaxaBlock::AddTaxonLabel on the taxa block tb
AddTaxonLabel(m, tb, s) ==
    [m EXCEPT !.blocks[tb].isEmpty = FALSE,
              !.taxa[tb] = [@ EXCEPT !.taxonLabels = Append(@, s), !.ntax = @ + 1]]

GetNumTaxonLabels(m, tb) == Len(m.taxa[tb].taxonLabels)

\* TaxaBlock::IsAlreadyDefined
IsAlreadyDefined(m, tb, s) == FindLabel(m.taxa[tb].taxonLabels, s, 1) >= 0

\* TaxaBlock::FindTaxon: -1 stands for "throw TaxaBlock::nosuchtaxon()"
FindTaxon(m, tb, s) == FindLabel(m.taxa[tb].taxonLabels, s, 1)

\* CharactersBlock::HandleDimensions
RECURSIVE HandleDimensions(_, _)
HandleDimensions(m, h) ==
    The({ LET tb == m.cb.taxa
          IN  IF Stopped(p) THEN p
              ELSE IF Equals(p.tk, CharWords.NEWTAXA)
                   THEN HandleDimensions(TaxaReset([p EXCEPT !.cb.newtaxa = TRUE], tb), h)
              ELSE IF Equals(p.tk, CharWords.NTAX)
                   THEN The({ IF Stopped(p2) THEN p2
                              ELSE IF ~Equals(p2.tk, <<"=">>) THEN ThrowB(p2, h, "Expecting '=' after NTAX in DIMENSIONS command")
                              ELSE The({ IF Stopped(p3) THEN p3
                                         ELSE The({ LET q == [p3 EXCEPT !.cb.ntax = n]
                                                        q2 == [q EXCEPT !.cb.ntaxTotal = GetNumTaxonLabels(q, tb)]
                                                    IN  IF n <= 0 THEN ThrowB(q, h, "NTAX must be a number greater than 0")
                                                        ELSE IF q.cb.newtaxa
                                                             THEN HandleDimensions([q EXCEPT !.cb.ntaxTotal = n], h)
                                                        ELSE IF q2.cb.ntaxTotal < n
                                                             THEN ThrowB(q2, h, "NTAX in block must be less than or equal to NTAX in TAXA block")
                                                        ELSE HandleDimensions(q2, h)
                                                    : n \in {atoi(p3.tk.token)} })
                                         : p3 \in {Pull(p2)} })
                              : p2 \in {Pull(p)} })
              ELSE IF Equals(p.tk, CharWords.NCHAR)
                   THEN The({ IF Stopped(p2) THEN p2
                              ELSE IF ~Equals(p2.tk, <<"=">>) THEN ThrowB(p2, h, "Expecting '=' after NCHAR in DIMENSIONS command")
                              ELSE The({ IF Stopped(p3) THEN p3
                                         ELSE The({ IF n <= 0 THEN ThrowB([p3 EXCEPT !.cb.nchar = n], h, "NCHAR must be a number greater than 0")
                                                    ELSE HandleDimensions([p3 EXCEPT !.cb.nchar = n, !.cb.ncharTotal = n], h)
                                                    : n \in {atoi(p3.tk.token)} })
                                         : p3 \in {Pull(p2)} })
                              : p2 \in {Pull(p)} })
              ELSE IF Equals(p.tk, <<";">>) THEN p
              ELSE IF Exhausted(p) THEN Hang(p)
              ELSE HandleDimensions(p, h)
          : p \in {Pull(m)} })

\* CharactersBlock::HandleFormat, the subcommands INTERLEAVE, LABELS and
\* NOLABELS; a word that is no subcommand is passed over, as in the code
RECURSIVE HandleFormat(_, _)
HandleFormat(m, h) ==
    The({ IF Stopped(p) THEN p
          ELSE IF Equals(p.tk, CharWords.LABELS) THEN HandleFormat([p EXCEPT !.cb.labels = TRUE], h)
          ELSE IF Equals(p.tk, CharWords.NOLABELS) THEN HandleFormat([p EXCEPT !.cb.labels = FALSE], h)
          ELSE IF Equals(p.tk, CharWords.INTERLEAVE) THEN HandleFormat([p EXCEPT !.cb.interleaving = TRUE], h)
          ELSE IF Equals(p.tk, <<";">>) THEN p
          ELSE IF Exhausted(p) THEN Hang(p)
          ELSE HandleFormat(p, h)
          : p \in {Pull(m)} })

\* a HandleEliminate that never finds the index map built
CharPosNeverBuilt(c) == FALSE

\* the test HandleEliminate makes before it builds the index map
CharPosBuilt(c) == c.charPos.alloc

\* CharactersBlock::HandleEliminate
HandleEliminate(m, h) ==
    The({ LET e == [r EXCEPT !.cb.eliminated = r.nxsset]
              q == [e EXCEPT !.cb.nchar = e.cb.ncharTotal - Cardinality(e.cb.eliminated)]
          IN  IF Stopped(r) THEN e
              ELSE IF q.cb.nchar # q.cb.ncharTotal /\ (Len(q.cb.charLabels) > 0 \/ DOMAIN q.cb.charStates # {})
                   THEN ThrowB(q, h, "The ELIMINATE command must appear before character (or character state) labels are specified")
              ELSE IF CharPosBuilt(q.cb)
                   THEN ThrowB(q, h, "Only one ELIMINATE command is allowed, and it must appear before the MATRIX command")
              ELSE [q EXCEPT !.cb = BuildCharPosArray(@, TRUE)]
          : r \in {SetReaderRun(SetReader([m EXCEPT !.nxsset = m.cb.eliminated]), h, m.cb.ncharTotal,
                                [rangeBegin |-> -1, rangeEnd |-> -1, insideRange |-> FALSE, modValue |-> 0])} })

\* CharactersBlock::HandleCharlabels, its loop
RECURSIVE CharlabelsLoop(_, _, _)
CharlabelsLoop(m, h, num_labels_read) ==
    The({ LET n == num_labels_read + 1
          IN  IF Stopped(p) THEN p
              ELSE IF Equals(p.tk, <<";">>) THEN [p EXCEPT !.cb.newchar = FALSE]
              ELSE IF n > p.cb.ncharTotal
                   THEN ThrowB(p, h, "Number of character labels exceeds NCHAR specified in DIMENSIONS command")
              ELSE CharlabelsLoop(IF ~IsEliminated(p.cb, n - 1)
                                  THEN [p EXCEPT !.cb.charLabels = Append(@, p.tk.token)]
                                  ELSE p, h, n)
          : p \in {Pull(m)} })

\* CharactersBlock::HandleCharlabels
HandleCharlabels(m, h) ==
    CharlabelsLoop(EnsureCharPos([m EXCEPT !.cb.charLabels = <<>>]), h, 0)

\* charStates[k].push_back( label )
PushCharState(c, k, label) ==
    [c EXCEPT !.charStates =
        [x \in DOMAIN c.charStates \cup {k} |->
            IF x = k THEN (IF k \in DOMAIN c.charStates THEN c.charStates[k] ELSE <<>>) \o <<label>>
            ELSE c.charStates[x]]]

\* a failed assertion ends the process
AssertFail(m) == ThrowOther(m, "assert")

\* a read or write outside an array
Undefined(m) == ThrowOther(m, "undefined")

\* the guards of GetCharPos( origCharIndex ) and the array bound behind them
CharPosReadable(c, origCharIndex) ==
    /\ c.charPos.alloc
    /\ origCharIndex >= 0
    /\ origCharIndex < c.ncharTotal

\* the inner loop of HandleStatelabels and HandleCharstatelabels that takes
\* the state labels of character n; m.retval tells whether it met the semicolon
RECURSIVE StateLabelsInner(_, _, _, _)
StateLabelsInner(m, h, n, save) ==
    The({ IF Stopped(p) THEN p
          ELSE IF Equals(p.tk, <<";">>) THEN [p EXCEPT !.retval = TRUE]
          ELSE IF Equals(p.tk, <<",">>) THEN [p EXCEPT !.retval = FALSE]
          ELSE IF ~save THEN (IF Exhausted(p) THEN Hang(p) ELSE StateLabelsInner(p, h, n, save))
          ELSE IF ~CharPosReadable(p.cb, n - 1) THEN AssertFail(p)
          ELSE IF n - 1 >= Len(p.cb.charPos.a) THEN Undefined(p)
          ELSE IF Exhausted(p) THEN Hang(p)
          ELSE StateLabelsInner([p EXCEPT !.cb = PushCharState(@, GetCharPos(@, n - 1), p.tk.token)],
                                h, n, save)
          : p \in {Pull(m)} })

\* CharactersBlock::HandleStatelabels, its outer loop
RECURSIVE StatelabelsLoop(_, _)
StatelabelsLoop(m, h) ==
    The({ IF Stopped(p) THEN p
          ELSE IF Equals(p.tk, <<";">>) THEN p
          ELSE The({ IF n < 1 \/ n > p.cb.ncharTotal
                     THEN ThrowB(p, h, "Invalid character number found in STATELABELS command")
                     ELSE The({ IF Stopped(q) \/ q.retval THEN q ELSE StatelabelsLoop(q, h)
                                : q \in {StateLabelsInner(p, h, n, ~IsEliminated(p.cb, n - 1))} })
                     : n \in {atoi(p.tk.token)} })
          : p \in {Pull(m)} })

\* CharactersBlock::HandleStatelabels
HandleStatelabels(m, h) ==
    StatelabelsLoop(EnsureCharPos([m EXCEPT !.cb.charStates = <<>>]), h)

\* HandleCharstatelabels: "while( n - currChar > 1 )", a blank label for
\* every kept character that is passed over
RECURSIVE PadCharLabels(_, _, _)
PadCharLabels(c, n, currChar) ==
    IF n - currChar > 1
    THEN PadCharLabels(IF ~IsEliminated(c, currChar) THEN [c EXCEPT !.charLabels = Append(@, <<" ">>)] ELSE c,
                       n, currChar + 1)
    ELSE c

\* CharactersBlock::HandleCharstatelabels, its outer loop
RECURSIVE CharstatelabelsLoop(_, _, _, _)
CharstatelabelsLoop(m, h, currChar, tokenAlreadyRead) ==
    The({ IF Stopped(p) THEN p
          ELSE IF Equals(p.tk, <<";">>) THEN [p EXCEPT !.cb.newchar = FALSE]
          ELSE
    The({ IF n < 1 \/ n > p.cb.ncharTotal \/ n <= currChar
          THEN ThrowB(p, h, "Invalid character number found in CHARSTATELABELS command")
          ELSE
    The({ IF Stopped(p1) THEN p1
          ELSE
    The({ IF Stopped(p3) THEN p3
          ELSE IF ~Equals(p3.tk, <<"/">>)
               THEN IF ~Equals(p3.tk, <<",">>) /\ ~Equals(p3.tk, <<";">>)
                    THEN ThrowB(p3, h, "Expecting a comma or semicolon here")
                    ELSE The({ IF Stopped(p4) THEN p4 ELSE CharstatelabelsLoop(p4, h, n, TRUE)
                               : p4 \in {IF Equals(p3.tk, <<",">>) THEN Pull(p3) ELSE p3} })
          ELSE The({ IF Stopped(q) THEN q
                     ELSE IF q.retval THEN [q EXCEPT !.cb.newchar = FALSE]
                     ELSE CharstatelabelsLoop(q, h, n, FALSE)
                     : q \in {StateLabelsInner(p3, h, n, ~IsEliminated(p.cb, n - 1))} })
          : p3 \in {Pull(IF ~IsEliminated(p.cb, n - 1)
                         THEN [p1 EXCEPT !.cb.charLabels = Append(@, p1.tk.token)]
                         ELSE p1)} })
          : p1 \in {Pull([p EXCEPT !.cb = PadCharLabels(@, n, currChar)])} })
          : n \in {atoi(p.tk.token)} })
          : p \in {IF tokenAlreadyRead THEN m ELSE Pull(m)} })

\* CharactersBlock::HandleCharstatelabels
HandleCharstatelabels(m, h) ==
    CharstatelabelsLoop(EnsureCharPos([m EXCEPT !.cb.charStates = <<>>, !.cb.charLabels = <<>>]),
                        h, 0, FALSE)

\* CharactersBlock::HandleTaxlabels, its loop
RECURSIVE TaxlabelsLoop(_, _)
TaxlabelsLoop(m, h) ==
    The({ LET tb == m.cb.taxa
          IN  IF Stopped(p) THEN p
              ELSE IF Equals(p.tk, <<";">>) THEN [p EXCEPT !.cb.newtaxa = FALSE]
              ELSE IF GetNumTaxonLabels(p, tb) > p.cb.ntaxTotal
                   THEN ThrowB(p, h, "Number of taxon labels exceeds NTAX specified in DIMENSIONS command")
              ELSE TaxlabelsLoop(AddTaxonLabel(p, tb, p.tk.token), h)
          : p \in {Pull(m)} })

\* CharactersBlock::HandleTaxlabels
HandleTaxlabels(m, h) ==
    IF ~m.cb.newtaxa
    THEN ThrowB(m, h, "NEWTAXA must have been specified in DIMENSIONS command to use the TAXLABELS command")
    ELSE TaxlabelsLoop(m, h)

\* the number-named labels HandleEndblock makes up: "Character" " " and k+1
RECURSIVE MadeUpLabels(_, _)
MadeUpLabels(k, ncharTotal) ==
    IF k >= ncharTotal THEN <<>>
    ELSE <<<<"C","h","a","r","a","c","t","e","r"," ", Digits[((k + 1) % 10) + 1]>>>>
         \o MadeUpLabels(k + 1, ncharTotal)

\* CharactersBlock::HandleEndblock
HandleEndblock(m, h) ==
    The({ IF Stopped(p) THEN p
          ELSE IF Len(p.cb.charLabels) = 0 /\ DOMAIN p.cb.charStates # {}
               THEN [p EXCEPT !.cb.charLabels = MadeUpLabels(0, p.cb.ncharTotal)]
          ELSE p
          : p \in {ExpectSemicolon(m, h, "Expecting ';' to terminate the END or ENDBLOCK command")} })

\* CharactersBlock::PositionInSymbols
RECURSIVE PositionInSymbolsFrom(_, _, _)
PositionInSymbolsFrom(c, ch, i) ==
    IF i >= Len(c.symbols) THEN -1
    ELSE LET char_in_symbols == IF c.respectingCase THEN c.symbols[i + 1] ELSE toupper(c.symbols[i + 1])
             char_in_question == IF c.respectingCase THEN ch ELSE toupper(ch)
         IN  IF char_in_symbols # char_in_question THEN PositionInSymbolsFrom(c, ch, i + 1) ELSE i

PositionInSymbols(c, ch) == PositionInSymbolsFrom(c, ch, 0)

\* DiscreteMatrix::GetState( i, j, k ): the index assertions, then the datum
MatrixGetState(mx, i, j, k) ==
    IF ~MatrixIndexOk(mx, i, j) THEN [ret |-> 0, assert |-> TRUE]
    ELSE DatumGetState(MatrixCell(mx, i, j), k)

\* a GetState that shows the symbol after the one at the position stored
GetStateNextSymbol(c, i, j, k) ==
    LET r == MatrixGetState(c.matrix, i, j, k)
    IN  IF r.assert \/ ~(r.ret < Len(c.symbols)) THEN [ret |-> NUL, assert |-> TRUE]
        ELSE [ret |-> c.symbols[((r.ret + 1) % Len(c.symbols)) + 1], assert |-> FALSE]

\* CharactersBlock::GetState( i, j, k ): the symbol returned, or the failure
\* of an assertion
GetState(c, i, j, k) ==
    LET r == MatrixGetState(c.matrix, i, j, k)
    IN  IF r.assert \/ ~(r.ret < Len(c.symbols)) THEN [ret |-> NUL, assert |-> TRUE]
        ELSE [ret |-> c.symbols[r.ret + 1], assert |-> FALSE]

\* CharactersBlock::GetInternalRepresentation( i, j, k )
GetInternalRepresentation(c, i, j, k) ==
    IF ~MatrixIndexOk(c.matrix, i, j) THEN [ret |-> 0, assert |-> TRUE]
    ELSE IF DatumIsGap(MatrixCell(c.matrix, i, j)) = 1 THEN [ret |-> -3, assert |-> FALSE]
    ELSE IF DatumIsMissing(MatrixCell(c.matrix, i, j)) = 1 THEN [ret |-> -2, assert |-> FALSE]
    ELSE MatrixGetState(c.matrix, i, j, k)

\* CharactersBlock::GetNumStates( i, j ) and IsPolymorphic( i, j )
GetNumStates(c, i, j) ==
    IF ~MatrixIndexOk(c.matrix, i, j) THEN [ret |-> 0, assert |-> TRUE]
    ELSE [ret |-> DatumGetNumStates(MatrixCell(c.matrix, i, j)), assert |-> FALSE]

IsPolymorphic(c, i, j) ==
    IF ~MatrixIndexOk(c.matrix, i, j) THEN [ret |-> 0, assert |-> TRUE]
    ELSE [ret |-> DatumIsPolymorphic(MatrixCell(c.matrix, i, j)), assert |-> FALSE]

\* matrix->AddState( i, j, value ), SetState( i, j, value ), SetPolymorphic( i, j, value ),
\* SetMissing( i, j ) and SetGap( i, j ): the index assertions, then the change of the datum
MatrixCall(m, i, j, fn, value) ==
    IF ~MatrixIndexOk(m.cb.matrix, i, j) THEN AssertFail(m)
    ELSE LET d == MatrixCell(m.cb.matrix, i, j)
             r == CASE fn = "AddState" -> DatumAddState(d, value)
                    [] fn = "SetPolymorphic" -> DatumSetPolymorphic(d, value)
                    [] fn = "SetState" -> DatumSetState(d, value)
                    [] fn = "SetMissing" -> NullStates
                    [] fn = "SetGap" -> <<0>>
         IN  [m EXCEPT !.cb.matrix = MatrixApply(@, i, j, r)]

\* DiscreteMatrix::CopyStatesFromFirstTaxon; for i = 0 the datum is copied
\* from itself, and CopyFrom has set its states to NULL before it reads them
CopyStatesFromFirstTaxon(m, i, j) ==
    IF ~MatrixIndexOk(m.cb.matrix, i, j) THEN AssertFail(m)
    ELSE [m EXCEPT !.cb.matrix =
            MatrixApply(@, i, j, DatumCopyFrom(MatrixCell(@, i, j),
                                               IF i = 0 THEN NullStates ELSE MatrixCell(@, 0, j)))]

\* HandleNextState, the "while( *pFirst != NUL && *pFirst != t[k] )" of a range
RECURSIVE RangeStates(_, _, _, _, _)
RangeStates(m, i, j, pf, stop) ==
    IF pf >= Len(m.cb.symbols) \/ m.cb.symbols[pf + 1] = stop THEN [m EXCEPT !.v = pf]
    ELSE The({ IF Stopped(a) THEN a ELSE RangeStates(a, i, j, pf + 1, stop)
               : a \in {MatrixCall(m, i, j, "AddState", PositionInSymbols(m.cb, m.cb.symbols[pf + 1]))} })

\* HandleNextState, the loop over the characters of a token of several states;
\* k counts from 0 as in the code, pf is pFirst - symbols
RECURSIVE MultiStateLoop(_, _, _, _, _, _, _, _)
MultiStateLoop(m, h, i, j, t, k, pf, tildeFound) ==
    LET c == t[k + 1]
    IN  IF c = ")" \/ c = "}" THEN m
        ELSE IF c = " " \/ c = TAB THEN MultiStateLoop(m, h, i, j, t, k + 1, pf, tildeFound)
        ELSE IF c = "~" THEN MultiStateLoop(m, h, i, j, t, k + 1, pf, TRUE)
        ELSE IF tildeFound
             THEN IF pf + 1 > Len(m.cb.symbols) THEN Undefined(m)
                  ELSE The({ IF Stopped(a) THEN a
                             ELSE MultiStateLoop(a, h, i, j, t, k + 1, a.v, FALSE)
                             : a \in {RangeStates(m, i, j, pf + 1, c)} })
        ELSE The({ IF p < 0 THEN ThrowB(m, h, "State specified not found in list of valid symbols")
                   ELSE The({ IF Stopped(a) THEN a
                              ELSE MultiStateLoop(a, h, i, j, t, k + 1, p, FALSE)
                              : a \in {MatrixCall(m, i, j, "AddState", p)} })
                   : p \in {PositionInSymbols(m.cb, c)} })

RECURSIVE FirstNonblank(_, _)
FirstNonblank(t, k) == IF t[k + 1] = " " \/ t[k + 1] = TAB THEN FirstNonblank(t, k + 1) ELSE k

RECURSIVE LastNonblank(_, _)
LastNonblank(t, k) == IF t[k + 1] = " " \/ t[k + 1] = TAB THEN LastNonblank(t, k - 1) ELSE k

\* the one-shot flags HandleNextState asks for
NextStateFlags(c) ==
    (IF ~c.tokens THEN {"parentheticalToken", "curlyBracketedToken", "singleCharacterToken"} ELSE {})
    \cup (IF c.interleaving THEN {"newlineIsToken"} ELSE {})

\* CharactersBlock::HandleNextState for single-symbol data (tokens is false);
\* m.retval is the value returned
HandleNextState(m, h, i, j) ==
    The({ IF Stopped(p) THEN p
          ELSE IF p.cb.interleaving /\ p.tk.atEOL THEN [p EXCEPT !.retval = FALSE]
          ELSE IF p.tk.atEOF THEN ThrowB(p, h, "Unexpected end of file encountered")
          ELSE IF Len(p.tk.token) = 0 THEN AssertFail(p)
          ELSE IF j < 0 THEN [p EXCEPT !.retval = TRUE]
          ELSE
    The({ LET t == q.tk.token
              tlen == Len(q.tk.token)
              ch == q.tk.token[1]
              poly == q.tk.token[1] = "("
          IN  IF tlen = 1
              THEN IF ch = q.cb.missing THEN [MatrixCall(q, i, j, "SetMissing", 0) EXCEPT !.retval = TRUE]
                   ELSE IF q.cb.matchchar # NUL /\ ch = q.cb.matchchar
                        THEN [CopyStatesFromFirstTaxon(q, i, j) EXCEPT !.retval = TRUE]
                   ELSE IF q.cb.gap # NUL /\ ch = q.cb.gap THEN [MatrixCall(q, i, j, "SetGap", 0) EXCEPT !.retval = TRUE]
                   ELSE The({ IF s < 0 THEN ThrowB(q, h, "State specified not found in list of valid symbols")
                              ELSE The({ IF Stopped(a) THEN a
                                         ELSE [MatrixCall(a, i, j, "SetPolymorphic", 0) EXCEPT !.retval = TRUE]
                                         : a \in {MatrixCall(q, i, j, "AddState", s)} })
                              : s \in {PositionInSymbols(q.cb, ch)} })
              ELSE IF ~(poly \/ t[1] = "{") THEN AssertFail(q)
              ELSE IF ~((poly /\ t[tlen] = ")") \/ (~poly /\ t[tlen] = "}")) THEN AssertFail(q)
              ELSE IF t[FirstNonblank(t, 1) + 1] = "~" \/ t[LastNonblank(t, tlen - 2) + 1] = "~"
                   THEN ThrowB(q, h, "token does not represent a valid range of states")
              ELSE The({ IF Stopped(a) THEN a
                         ELSE [MatrixCall(a, i, j, "SetPolymorphic", IF poly THEN 1 ELSE 0) EXCEPT !.retval = TRUE]
                         : a \in {MultiStateLoop(q, h, i, j, t, 1, 0, FALSE)} })
          : q \in {IF p.cb.respectingCase THEN p ELSE [p EXCEPT !.tk.token = ToUpperStr(@)]} })
          : p \in {PullWith(m, NextStateFlags(m.cb))} })

\* HandleStdMatrix, the test made when a row of an interleave page ends:
\* TRUE when the row is refused
UnevenRow(lastChar, ncharTotal, j) == lastChar < ncharTotal /\ j # lastChar

\* StdLabel without the test of the position of the label on the first page
StdLabelAnyOrder(m, h, L) ==
    IF ~m.cb.labels
    THEN IF L.page = 0
         THEN IF L.i >= Len(m.cb.taxonPos.a) THEN Undefined(m)
              ELSE [m EXCEPT !.cb.taxonPos.a[L.i + 1] = L.i]
         ELSE m
    ELSE
    The({ LET tb == m.cb.taxa
              i == L.i
              inTaxonPos(k) == k >= 0 /\ k < Len(p.cb.taxonPos.a)
          IN  IF Stopped(p) THEN p
              ELSE IF L.page = 0 /\ p.cb.newtaxa
                   THEN IF IsAlreadyDefined(p, tb, p.tk.token)
                        THEN ThrowB(p, h, "Data for this taxon has already been saved")
                        ELSE IF ~inTaxonPos(i) THEN Undefined(AddTaxonLabel(p, tb, p.tk.token))
                        ELSE [AddTaxonLabel(p, tb, p.tk.token) EXCEPT !.cb.taxonPos.a[i + 1] = i]
              ELSE The({ IF positionInTaxaBlock < 0 THEN ThrowOther(p, "nosuchtaxon")
                         ELSE IF ~inTaxonPos(positionInTaxaBlock) THEN Undefined(p)
                         ELSE IF L.page = 0
                              THEN IF p.cb.taxonPos.a[positionInTaxaBlock + 1] # -1
                                   THEN ThrowB(p, h, "Data for this taxon has already been saved")
                                   ELSE IF FALSE
                                   THEN ThrowB(p, h, "Relative order of taxa must be the same in both the TAXA and CHARACTERS blocks")
                                   ELSE [p EXCEPT !.cb.taxonPos.a[i + 1] = positionInTaxaBlock]
                         ELSE IF p.cb.taxonPos.a[positionInTaxaBlock + 1] # i
                              THEN ThrowB(p, h, "Ordering of taxa must be identical to that in first interleave page")
                              ELSE p
                         : positionInTaxaBlock \in {FindTaxon(p, tb, p.tk.token)} })
          : p \in {Pull(m)} })

\* HandleStdMatrix, the taxon label in front of row L.i
StdLabel(m, h, L) ==
    IF ~m.cb.labels
    THEN IF L.page = 0
         THEN IF L.i >= Len(m.cb.taxonPos.a) THEN Undefined(m)
              ELSE [m EXCEPT !.cb.taxonPos.a[L.i + 1] = L.i]
         ELSE m
    ELSE
    The({ LET tb == m.cb.taxa
              i == L.i
              inTaxonPos(k) == k >= 0 /\ k < Len(p.cb.taxonPos.a)
          IN  IF Stopped(p) THEN p
              ELSE IF L.page = 0 /\ p.cb.newtaxa
                   THEN IF IsAlreadyDefined(p, tb, p.tk.token)
                        THEN ThrowB(p, h, "Data for this taxon has already been saved")
                        ELSE IF ~inTaxonPos(i) THEN Undefined(AddTaxonLabel(p, tb, p.tk.token))
                        ELSE [AddTaxonLabel(p, tb, p.tk.token) EXCEPT !.cb.taxonPos.a[i + 1] = i]
              ELSE The({ IF positionInTaxaBlock < 0 THEN ThrowOther(p, "nosuchtaxon")
                         ELSE IF ~inTaxonPos(positionInTaxaBlock) THEN Undefined(p)
                         ELSE IF L.page = 0
                              THEN IF p.cb.taxonPos.a[positionInTaxaBlock + 1] # -1
                                   THEN ThrowB(p, h, "Data for this taxon has already been saved")
                                   ELSE IF positionInTaxaBlock # i
                                   THEN ThrowB(p, h, "Relative order of taxa must be the same in both the TAXA and CHARACTERS blocks")
                                   ELSE [p EXCEPT !.cb.taxonPos.a[i + 1] = positionInTaxaBlock]
                         ELSE IF p.cb.taxonPos.a[positionInTaxaBlock + 1] # i
                              THEN ThrowB(p, h, "Ordering of taxa must be identical to that in first interleave page")
                              ELSE p
                         : positionInTaxaBlock \in {FindTaxon(p, tb, p.tk.token)} })
          : p \in {Pull(m)} })

\* CharactersBlock::HandleStdMatrix; L holds its local variables, StdRow is
\* the body of the loop over taxa, StdCells the loop over characters and
\* StdPageEnd the tail of the loop over interleave pages
RECURSIVE StdRow(_, _, _)
RECURSIVE StdCells(_, _, _)
RECURSIVE StdPageEnd(_, _, _)
StdRow(m, h, L) ==
    IF L.i >= m.cb.ntax THEN StdPageEnd(m, h, L)
    ELSE The({ IF Stopped(a) THEN a
               ELSE StdCells(a, h, [L EXCEPT !.currChar = L.firstChar])
               : a \in {StdLabel(m, h, L)} })

StdCells(m, h, L) ==
    IF L.currChar < L.lastChar
    THEN IF ~m.cb.charPos.alloc \/ L.currChar < 0 \/ L.currChar >= Len(m.cb.charPos.a) THEN Undefined(m)
         ELSE LET j == m.cb.charPos.a[L.currChar + 1]
              IN  The({ IF Stopped(r) THEN r
                        ELSE IF r.cb.interleaving /\ ~r.retval
                             THEN IF UnevenRow(L.lastChar, r.cb.ncharTotal, j)
                                  THEN ThrowB(r, h, "Each line within an interleave page must comprise the same number of characters")
                                  ELSE StdCells(r, h, [L EXCEPT !.nextFirst = L.currChar,
                                                                !.lastChar = L.currChar,
                                                                !.currChar = L.currChar + 1])
                        ELSE StdCells(r, h, [L EXCEPT !.currChar = L.currChar + 1])
                        : r \in {HandleNextState(m, h, L.i, j)} })
    ELSE StdRow(m, h, [L EXCEPT !.i = L.i + 1])

StdPageEnd(m, h, L) ==
    IF L.currChar = m.cb.ncharTotal THEN m
    ELSE IF L.page >= 1 /\ L.m0 = m /\ L.nextFirst = L.firstChar THEN Hang(m)
    ELSE StdRow(m, h, [L EXCEPT !.firstChar = L.nextFirst, !.lastChar = m.cb.ncharTotal,
                                !.page = L.page + 1, !.i = 0, !.m0 = m])

HandleStdMatrix(m, h) ==
    StdRow(m, h, [i |-> 0, currChar |-> 0, firstChar |-> 0, lastChar |-> m.cb.ncharTotal,
                  nextFirst |-> 0, page |-> 0, m0 |-> m])

\* CharactersBlock::HandleMatrix (transposed matrices are not modelled)
HandleMatrix(m, h) ==
    IF m.cb.ntax = 0
    THEN ThrowB(m, h, "Must precede block with a TAXA block or specify NEWTAXA and NTAX in the DIMENSIONS command")
    ELSE
    The({ IF m1.cb.nchar < 0 THEN AssertFail(m1)
          ELSE
    The({ IF Stopped(m5) THEN m5
          ELSE ExpectSemicolon([m5 EXCEPT !.cb.callbackSet = TRUE], h,
                               "Expecting ';' at the end of the MATRIX command")
          : m5 \in {HandleStdMatrix(
                       The({ [m3 EXCEPT !.cb.taxonPos = Array([k \in 1..m3.cb.ntaxTotal |-> -1])]
                             : m3 \in {EnsureCharPos([m1 EXCEPT !.cb.matrix = DiscreteMatrix(m1.cb.ntax, m1.cb.nchar),
                                                                !.cb.activeTaxon = Array([k \in 1..m1.cb.ntax |-> TRUE]),
                                                                !.cb.activeChar = Array([k \in 1..m1.cb.nchar |-> TRUE])])} }),
                       h)} })
          : m1 \in {IF m.cb.ntaxTotal = 0
                    THEN [m EXCEPT !.cb.ntaxTotal = GetNumTaxonLabels(m, m.cb.taxa)] ELSE m} })

\* CharactersBlock::Read, entry: the semicolon after the block name
CharReadBegin(m, h) ==
    The({ IF Stopped(p) THEN p
          ELSE [p EXCEPT !.cb.ntax = GetNumTaxonLabels(p, p.cb.taxa)]
          : p \in {ExpectSemicolon([m EXCEPT !.blocks[h].isEmpty = FALSE], h,
                                   "Expecting ';' after block name")} })

\* CharactersBlock::Read, one turn of its command loop; done is set when the loop breaks
CharReadCommand(m, h) ==
    The({ IF Stopped(p) THEN p
          ELSE IF Equals(p.tk, CharWords.DIMENSIONS) THEN HandleDimensions(p, h)
          ELSE IF Equals(p.tk, CharWords.FORMAT) THEN HandleFormat(p, h)
          ELSE IF Equals(p.tk, CharWords.ELIMINATE) THEN HandleEliminate(p, h)
          ELSE IF Equals(p.tk, CharWords.TAXLABELS) THEN HandleTaxlabels(p, h)
          ELSE IF Equals(p.tk, CharWords.CHARSTATELABELS) THEN HandleCharstatelabels(p, h)
          ELSE IF Equals(p.tk, CharWords.CHARLABELS) THEN HandleCharlabels(p, h)
          ELSE IF Equals(p.tk, CharWords.STATELABELS) THEN HandleStatelabels(p, h)
          ELSE IF Equals(p.tk, CharWords.MATRIX) THEN HandleMatrix(p, h)
          ELSE IF Equals(p.tk, CharWords.END) \/ Equals(p.tk, CharWords.ENDBLOCK)
               THEN The({ IF Stopped(q) THEN q ELSE [q EXCEPT !.done = TRUE]
                          : q \in {HandleEndblock(p, h)} })
          ELSE SkipCommand(p, h)
          : p \in {Pull(m)} })

\* ------------------------------------------------------------------------
\* The exclusion of characters and the deletion of taxa
\* ------------------------------------------------------------------------

\* the loop of ApplyDelset, ApplyExset, ApplyIncludeset and ApplyRestoreset
\* over the set rest, in the order of the set; pos is taxonPos or charPos,
\* num the counter the function returns
RECURSIVE ApplyLoop(_, _, _, _, _)
ApplyLoop(active, pos, rest, value, num) ==
    IF rest = {} THEN [active |-> active, num |-> num]
    ELSE LET i == CHOOSE e \in rest : \A o \in rest : e <= o
             k == pos.a[i + 1]
         IN  IF k < 0 THEN ApplyLoop(active, pos, rest \ {i}, value, num)
             ELSE ApplyLoop([active EXCEPT !.a[k + 1] = value], pos, rest \ {i}, value,
                            IF active.a[k + 1] # value THEN num + 1 ELSE num)

\* an ApplyExset that counts every member of the set it is given
ApplyExsetCountsAll(c, exset) ==
    IF ~c.activeChar.alloc THEN [cb |-> c, ret |-> 0, assert |-> TRUE]
    ELSE [cb |-> [c EXCEPT !.activeChar = ApplyLoop(c.activeChar, c.charPos, exset, FALSE, 0).active],
          ret |-> Cardinality(exset), assert |-> FALSE]

\* CharactersBlock::ApplyDelset and its three companions: the block after
\* the call, the value returned, and whether the assertion at the head failed
ApplyDelset(c, delset) ==
    IF ~c.activeTaxon.alloc THEN [cb |-> c, ret |-> 0, assert |-> TRUE]
    ELSE LET r == ApplyLoop(c.activeTaxon, c.taxonPos, delset, FALSE, 0)
         IN  [cb |-> [c EXCEPT !.activeTaxon = r.active], ret |-> r.num, assert |-> FALSE]

ApplyExset(c, exset) ==
    IF ~c.activeChar.alloc THEN [cb |-> c, ret |-> 0, assert |-> TRUE]
    ELSE LET r == ApplyLoop(c.activeChar, c.charPos, exset, FALSE, 0)
         IN  [cb |-> [c EXCEPT !.activeChar = r.active], ret |-> r.num, assert |-> FALSE]

ApplyIncludeset(c, inset) ==
    IF ~c.activeChar.alloc THEN [cb |-> c, ret |-> 0, assert |-> TRUE]
    ELSE LET r == ApplyLoop(c.activeChar, c.charPos, inset, TRUE, 0)
         IN  [cb |-> [c EXCEPT !.activeChar = r.active], ret |-> r.num, assert |-> FALSE]

ApplyRestoreset(c, restoreset) ==
    IF ~c.activeTaxon.alloc THEN [cb |-> c, ret |-> 0, assert |-> TRUE]
    ELSE LET r == ApplyLoop(c.activeTaxon, c.taxonPos, restoreset, TRUE, 0)
         IN  [cb |-> [c EXCEPT !.activeTaxon = r.active], ret |-> r.num, assert |-> FALSE]

\* an ExcludeCharacter that removes the character as ELIMINATE does
ExcludeCharacterForGood(c, i) ==
    [c EXCEPT !.activeChar.a[i + 1] = FALSE, !.nchar = @ - 1]

\* CharactersBlock::DeleteTaxon, ExcludeCharacter, IncludeCharacter and
\* RestoreTaxon on the current index i
DeleteTaxon(c, i) == [c EXCEPT !.activeTaxon.a[i + 1] = FALSE]
ExcludeCharacter(c, i) == [c EXCEPT !.activeChar.a[i + 1] = FALSE]
IncludeCharacter(c, i) == [c EXCEPT !.activeChar.a[i + 1] = TRUE]
RestoreTaxon(c, i) == [c EXCEPT !.activeTaxon.a[i + 1] = TRUE]

\* ------------------------------------------------------------------------
\* Nexus: the registry of handlers and Execute
\* ------------------------------------------------------------------------
THIS == "this"

\* the last block of the chain that starts at curr (Nexus::Add, line 75)
RECURSIVE LastBlock(_, _)
LastBlock(bl, curr) == IF bl[curr].next = NULL THEN curr ELSE LastBlock(bl, bl[curr].next)

\* the chain from curr on, as a sequence of handlers
RECURSIVE Chain(_, _)
Chain(bl, curr) == IF curr = NULL THEN <<>> ELSE <<curr>> \o Chain(bl, bl[curr].next)

\* NexusBlock::IsEnabled
IsEnabled(b) == b.isEnabled

\* NexusBlock::GetID
GetID(b) == b.id

\* NexusToken::BlanksToUnderscores
BlanksToUnderscores(t) ==
    [t EXCEPT !.token = [k \in 1..Len(t.token) |-> IF t.token[k] = " " THEN "_" ELSE t.token[k]]]

\* one entry of the record of what Execute did: a call of a hook of Nexus
\* (a virtual function the host overrides), a call into a handler, or a mark
\* (BEGIN, Command, Raised, Skipped) of the place Execute has reached
Ev(e, a) == [e |-> e, a |-> a]

\* NexusError( msg, pos, line, col ); from names the handler whose Read failed
NexusErrorEv(msg, pos, line, col, from) ==
    Ev("NexusError", [msg |-> msg, pos |-> pos, line |-> line, col |-> col, from |-> from])

\* the objects bundled for the parsing operators
Machine == [tk |-> tk, blocks |-> blocks, taxa |-> taxa, cb |-> cb,
            done |-> FALSE, v |-> 0, retval |-> FALSE, nxsset |-> {}]

\* the virtual calls curr->Reset() and curr->Read( token )
BlockReset(m, h) ==
    IF m.blocks[h].class = "TaxaBlock" THEN TaxaReset(m, h) ELSE CharReset(m, h)

BlockReadBegin(m, h) ==
    IF m.blocks[h].class = "TaxaBlock" THEN TaxaReadBegin(m, h) ELSE CharReadBegin(m, h)

BlockReadCommand(m, h) ==
    IF m.blocks[h].class = "TaxaBlock" THEN TaxaReadCommand(m, h) ELSE CharReadCommand(m, h)

\* a catch block that reports the error and resets the handler but lets the
\* loop of Execute go on
CatchXNexusGoesOn(m, h, e) ==
    << BlockReset(m, h),
       [e EXCEPT !.pc = "loop", !.curr = NULL,
                 !.log = @ \o << NexusErrorEv(m.blocks[h].errormsg, m.tk.x.pos, m.tk.x.line,
                                              m.tk.x.col, h),
                                 Ev("Reset", h) >>] >>

\* Execute, lines 255-259: catch( XNexus x ) around curr->Read( token )
CatchXNexus(m, h, e) ==
    << BlockReset(m, h),
       [e EXCEPT !.pc = "returned",
                 !.log = @ \o << NexusErrorEv(m.blocks[h].errormsg, m.tk.x.pos, m.tk.x.line,
                                              m.tk.x.col, h),
                                 Ev("Reset", h) >>] >>

\* where control goes when something other than an XNexus leaves a call
Escape(m, e) ==
    << m, [e EXCEPT !.pc = IF m.tk.hung THEN "hung"
                           ELSE IF m.tk.x.kind = "assert" THEN "aborted"
                           ELSE IF m.tk.x.kind = "undefined" THEN "undefined"
                           ELSE "escaped",
                    !.x = m.tk.x] >>

\* Execute, lines 252-261: what follows a step of curr->Read( token )
ReadOutcome(m, h, e) ==
    IF m.tk.hung THEN Escape(m, e)
    ELSE IF m.tk.x.thrown
         THEN IF m.tk.x.kind = "XNexus"
              THEN CatchXNexus(m, h, [e EXCEPT !.log = Append(@, Ev("Raised", [h |-> h, x |-> m.tk.x]))])
              ELSE Escape(m, e)
    ELSE IF m.done
         THEN << m, [e EXCEPT !.pc = "loop", !.curr = NULL,
                              !.log = Append(@, Ev("ExitingBlock", GetID(m.blocks[h])))] >>
    ELSE << m, e >>

\* Execute, lines 249-253: EnteringBlock, curr->Reset() and the entry of Read
EnterBlock(m, h, e) ==
    LET r == BlockReadBegin(BlockReset(m, h), h)
    IN  ReadOutcome(r, h, [e EXCEPT !.pc = "read", !.curr = h,
                                    !.log = @ \o << Ev("EnteringBlock", GetID(m.blocks[h])),
                                                    Ev("Reset", h), Ev("Read", h) >>])

\* a scan that does not ask whether the handler is enabled
TakesSectionAnyway(t, b) == Equals(t, GetID(b))

\* Execute, lines 240-247: does the scan stop at handler b to let it read?
TakesSection(t, b) == Equals(t, GetID(b)) /\ IsEnabled(b)

\* Execute, lines 238-262: the scan of the registry from curr on; the result
\* is the handler found or NULL, with the notices issued on the way
RECURSIVE ScanBlocks(_, _, _, _)
ScanBlocks(m, curr, e, seen) ==
    IF curr = NULL THEN [found |-> NULL, e |-> e, hung |-> FALSE]
    ELSE IF curr \in seen THEN [found |-> NULL, e |-> e, hung |-> TRUE]
    ELSE IF ~Equals(m.tk, GetID(m.blocks[curr]))
         THEN ScanBlocks(m, m.blocks[curr].next, e, seen \cup {curr})
    ELSE IF ~TakesSection(m.tk, m.blocks[curr])
         THEN ScanBlocks(m, m.blocks[curr].next,
                         [e EXCEPT !.disabledBlock = TRUE,
                                   !.log = Append(@, Ev("SkippingDisabledBlock", m.tk.token))],
                         seen \cup {curr})
    ELSE [found |-> curr, e |-> e, hung |-> FALSE]

\* a skip that issues SkippingBlock whether or not a disabled handler was met
BeginSkipAlwaysNotes(m, e) ==
    LET t == BlanksToUnderscores(m.tk)
    IN  << [m EXCEPT !.tk = t],
           [e EXCEPT !.pc = "skip", !.currBlock = t.token,
                     !.log = Append(@, Ev("SkippingBlock", t.token))] >>

\* Execute, lines 264-269: no handler took the section
BeginSkip(m, e) ==
    LET t == BlanksToUnderscores(m.tk)
    IN  << [m EXCEPT !.tk = t],
           [e EXCEPT !.pc = "skip", !.currBlock = t.token,
                     !.log = IF ~e.disabledBlock THEN Append(@, Ev("SkippingBlock", t.token)) ELSE @] >>

\* Execute, lines 310-311: leaving the loop
ExecuteStopping(m, e) ==
    << m, [e EXCEPT !.pc = "returned", !.log = Append(@, Ev("ExecuteStopping", <<>>))] >>

\* NexusError issued by Execute itself, followed by return
ErrorReturn(m, e, msg) ==
    << m, [e EXCEPT !.pc = "returned",
                    !.log = Append(@, NexusErrorEv(msg, m.tk.filepos, m.tk.fileline, m.tk.filecol, NULL))] >>

\* Execute, lines 232-292: the token after BEGIN has been pulled
BeginBlock(m, e) ==
    The({ IF s.hung THEN Escape(Hang(m), s.e)
          ELSE IF s.found # NULL THEN EnterBlock(m, s.found, s.e)
          ELSE BeginSkip(m, s.e)
          : s \in {ScanBlocks(m, blockList, e, {})} })

\* Execute, lines 294-302: one DebugReportBlock per registered handler
ShowAll(m, e) ==
    << m, [e EXCEPT !.log = @ \o [k \in 1..Len(Chain(m.blocks, blockList)) |->
                                     Ev("DebugReportBlock", Chain(m.blocks, blockList)[k])]] >>

\* Execute, lines 223-308: one turn of the main loop, up to the entry of Read
ExecuteTurn(m0, e0) ==
    The({ IF Stopped(m) THEN Escape(m, e0)
          ELSE IF m.tk.atEOF THEN ExecuteStopping(m, e0)
          ELSE IF Equals(m.tk, NexusWords.BEGIN)
               THEN The({ IF Stopped(p) THEN Escape(p, [e0 EXCEPT !.disabledBlock = FALSE])
                          ELSE BeginBlock(p, [e0 EXCEPT !.disabledBlock = FALSE,
                                                        !.log = Append(@, Ev("BEGIN", [name |-> ToUpperStr(p.tk.token),
                                                                                      pos |-> p.tk.ipos]))])
                          : p \in {Pull(m)} })
          ELSE IF Equals(m.tk, NexusWords.SHOWALL) THEN ShowAll(m, e0)
          ELSE IF Equals(m.tk, NexusWords.LEAVE) THEN ExecuteStopping(m, e0)
          ELSE << m, e0 >>
          : m \in {Pull([m0 EXCEPT !.tk = SetLabileFlagBit(@, "saveCommandComments")])} })

\* Execute, lines 270-290: one turn of the loop that skips a section
SkipTurn(m0, e) ==
    The({ IF Stopped(m) THEN Escape(m, e)
          ELSE IF Equals(m.tk, NexusWords.END) \/ Equals(m.tk, NexusWords.ENDBLOCK)
               THEN The({ IF Stopped(p) THEN Escape(p, e)
                          ELSE IF ~Equals(p.tk, <<";">>)
                               THEN ErrorReturn(p, e, "Expecting ';' after END or ENDBLOCK command")
                          ELSE << p, [e EXCEPT !.pc = "loop",
                                               !.log = Append(@, Ev("Skipped", p.tk.ipos))] >>
                          : p \in {Pull(m)} })
          ELSE IF m.tk.atEOF
               THEN ErrorReturn(m, e, "Encountered end of file before END or ENDBLOCK in block")
          ELSE << m, e >>
          : m \in {Pull(m0)} })

\* Execute, lines 204-221: the first token of the document
ExecuteBegin(m0, e) ==
    The({ IF m.tk.hung THEN Escape(m, e)
          ELSE IF m.tk.x.thrown
               THEN << m, [e EXCEPT !.pc = "returned",
                                    !.log = Append(@, NexusErrorEv(m.tk.errormsg, 0, 0, 0, NULL))] >>
          ELSE IF ~Equals(m.tk, NexusWords.NEXUS)
               THEN ErrorReturn(m, e, "Expecting #NEXUS to be the first token in the file")
          ELSE << m, [e EXCEPT !.pc = "loop", !.log = Append(@, Ev("ExecuteStarting", <<>>))] >>
          : m \in {Pull(m0)} })

\* Execute, lines 252-261: one command of the section read by curr->Read( token ),
\* marked in the record by the word that starts it
ReadTurn(m, e) ==
    ReadOutcome(BlockReadCommand(m, e.curr), e.curr,
                [e EXCEPT !.log = Append(@, Ev("Command", ToUpperStr(Pull(m).tk.token)))])

\* Nexus::Execute from the call to the return, for the document m.tk holds:
\* the same steps the actions below take one at a time
RECURSIVE RunExecute(_, _)
RunExecute(m, e) ==
    IF e.pc \notin {"idle", "loop", "read", "skip"} THEN << m, e >>
    ELSE The({ RunExecute([r[1] EXCEPT !.tk.x = NoX], r[2])
               : r \in { IF e.pc = "idle" THEN ExecuteBegin(m, e)
                         ELSE IF e.pc = "loop" THEN ExecuteTurn(m, e)
                         ELSE IF e.pc = "read" THEN ReadTurn(m, e)
                         ELSE SkipTurn(m, e) } })

\* the new state after a step of Execute that ended in <<m, e>>
Commit(r) ==
    /\ tk' = [r[1].tk EXCEPT !.x = NoX]
    /\ blocks' = r[1].blocks
    /\ taxa' = r[1].taxa
    /\ cb' = r[1].cb
    /\ ex' = r[2]

\* the locals of Execute before the call; given is what the document at hand
\* was written from, for the properties that compare the result with it
ExecIdle == [pc |-> "idle", curr |-> NULL, disabledBlock |-> FALSE, currBlock |-> <<>>,
             log |-> <<>>, x |-> NoX,
             given |-> [data |-> <<>>, interleave |-> FALSE, pages |-> <<>>, rag |-> <<>>]]

\* --- the host's calls ---

\* the handlers met on the way from curr along next, each once
RECURSIVE Walk(_, _, _)
Walk(bl, curr, seen) ==
    IF curr = NULL \/ curr \in seen THEN <<>>
    ELSE <<curr>> \o Walk(bl, bl[curr].next, seen \cup {curr})

\* the way from curr along next never comes to NULL
RECURSIVE Endless(_, _, _)
Endless(bl, curr, seen) ==
    IF curr = NULL THEN FALSE
    ELSE IF curr \in seen THEN TRUE
    ELSE Endless(bl, bl[curr].next, seen \cup {curr})

\* Nexus::Add( newBlock ); a handler is registered while the host does not
\* hold it for registered. The loop to the end of the list does not end when
\* the list runs in a circle.
Add(h) ==
    /\ phase = "exec" /\ ex.pc = "idle"
    /\ blocks[h].nexus = NULL
    /\ IF blockList = NULL
       THEN /\ blockList' = h
            /\ blocks' = [blocks EXCEPT ![h].nexus = THIS]
            /\ ex' = ex
       ELSE IF Endless(blocks, blockList, {})
       THEN /\ blockList' = blockList
            /\ blocks' = [blocks EXCEPT ![h].nexus = THIS]
            /\ ex' = [ex EXCEPT !.pc = "hung"]
       ELSE /\ blockList' = blockList
            /\ blocks' = [blocks EXCEPT ![h].nexus = THIS,
                                        ![LastBlock(blocks, blockList)].next = h]
            /\ ex' = ex
    /\ UNCHANGED <<phase, tk, taxa, cb>>

\* Nexus::Detach, the loop that moves currNext from blockList->next on until
\* it is NULL or oldBlock; "endless" when it meets neither
RECURSIVE DetachScan(_, _, _, _)
DetachScan(bl, currNext, oldBlock, seen) ==
    IF currNext = NULL \/ currNext = oldBlock THEN currNext
    ELSE IF currNext \in seen THEN "endless"
    ELSE DetachScan(bl, bl[currNext].next, oldBlock, seen \cup {currNext})

\* Nexus::Detach( oldBlock ); curr stays at blockList while currNext moves
Detach(h) ==
    /\ phase = "exec" /\ ex.pc = "idle"
    /\ IF blockList = NULL
       THEN /\ ex' = [ex EXCEPT !.pc = "aborted", !.x = [thrown |-> TRUE, kind |-> "assert"],
                                !.given = [op |-> "Detach", arg |-> {h}, ret |-> 0]]
            /\ UNCHANGED <<blockList, blocks>>
       ELSE IF blockList = h
       THEN /\ blockList' = blocks[h].next
            /\ blocks' = [blocks EXCEPT ![h].nexus = NULL]
            /\ ex' = [ex EXCEPT !.given = [op |-> "Detach", arg |-> {h}, ret |-> 0]]
       ELSE \E currNext \in {DetachScan(blocks, blocks[blockList].next, h, {})} :
               IF currNext = "endless"
               THEN /\ ex' = [ex EXCEPT !.pc = "hung", !.given = [op |-> "Detach", arg |-> {h}, ret |-> 0]]
                    /\ UNCHANGED <<blockList, blocks>>
               ELSE IF currNext = h
               THEN /\ blockList' = blockList
                    /\ blocks' = [blocks EXCEPT ![blockList].next = blocks[h].next,
                                                ![h].next = NULL, ![h].nexus = NULL]
                    /\ ex' = [ex EXCEPT !.given = [op |-> "Detach", arg |-> {h}, ret |-> 0]]
               ELSE /\ ex' = [ex EXCEPT !.given = [op |-> "Detach", arg |-> {h}, ret |-> 0]]
                    /\ UNCHANGED <<blockList, blocks>>
    /\ UNCHANGED <<phase, tk, taxa, cb>>

\* NexusBlock::Disable, called by the host on a handler it has registered
Disable(h) ==
    /\ phase = "exec" /\ ex.pc = "idle"
    /\ blocks[h].nexus # NULL
    /\ blocks[h].isEnabled
    /\ blocks' = [blocks EXCEPT ![h].isEnabled = FALSE]
    /\ UNCHANGED <<phase, tk, blockList, taxa, cb, ex>>

\* NexusBlock::Enable, called by the host on a handler it has registered
Enable(h) ==
    /\ phase = "exec" /\ ex.pc = "idle"
    /\ blocks[h].nexus # NULL
    /\ ~blocks[h].isEnabled
    /\ blocks' = [blocks EXCEPT ![h].isEnabled = TRUE]
    /\ UNCHANGED <<phase, tk, blockList, taxa, cb, ex>>

\* Nexus::Execute( token ), from the call to the end of the #NEXUS check
Execute ==
    /\ phase = "exec" /\ ex.pc = "idle"
    /\ Commit(ExecuteBegin(Machine, ex))
    /\ UNCHANGED <<phase, blockList>>

\* Nexus::Execute, one turn of its main loop
ExecuteLoop ==
    /\ phase = "exec" /\ ex.pc = "loop"
    /\ Commit(ExecuteTurn(Machine, ex))
    /\ UNCHANGED <<phase, blockList>>

\* Nexus::Execute inside curr->Read( token ): one command of the section
ExecuteRead ==
    /\ phase = "exec" /\ ex.pc = "read"
    /\ Commit(ReadTurn(Machine, ex))
    /\ UNCHANGED <<phase, blockList>>

\* Nexus::Execute, one turn of the loop that skips a section
ExecuteSkip ==
    /\ phase = "exec" /\ ex.pc = "skip"
    /\ Commit(SkipTurn(Machine, ex))
    /\ UNCHANGED <<phase, blockList>>

\* ------------------------------------------------------------------------
\* The tokenizer on its own: a caller sets labile flags and pulls tokens
\* ------------------------------------------------------------------------
MaxTokLen == 4
TokChars == {"a", NL, "(", ")", ";", "'", "["}
TokFlags == {"parentheticalToken", "newlineIsToken"}

RECURSIVE SeqsUpTo(_, _)
SeqsUpTo(S, n) ==
    IF n = 0 THEN {<<>>}
    ELSE LET P == SeqsUpTo(S, n - 1)
         IN  P \cup {Append(q, c) : q \in {r \in P : Len(r) = n - 1}, c \in S}

Idle == [pc |-> "none"]

InitTok ==
    /\ phase = "tok"
    /\ tk \in {NexusToken(inp) : inp \in SeqsUpTo(TokChars, MaxTokLen)}
    /\ blockList = "NULL"
    /\ blocks = <<>>
    /\ taxa = <<>>
    /\ cb = <<>>
    /\ ex = Idle

\* a caller sets one labile flag before a pull
TokSetLabileFlagBit ==
    /\ phase \in {"tok", "pulled"}
    /\ ~tk.hung
    /\ \E bit \in TokFlags :
          /\ bit \notin tk.labileFlags
          /\ tk' = SetLabileFlagBit(tk, bit)
    /\ phase' = "tok"
    /\ UNCHANGED <<blockList, blocks, taxa, cb, ex>>

\* a caller pulls the next token
TokGetNextToken ==
    /\ phase \in {"tok", "pulled"}
    /\ ~tk.hung
    /\ ~(tk.atEOF /\ tk.labileFlags = {})
    /\ tk' = GetNextToken(tk)
    /\ phase' = "pulled"
    /\ UNCHANGED <<blockList, blocks, taxa, cb, ex>>

NextTok == TokSetLabileFlagBit \/ TokGetNextToken

SpecTok == InitTok /\ [][NextTok]_vars

\* ------------------------------------------------------------------------
\* Properties of the tokenizer
\* ------------------------------------------------------------------------
\* the part of the document the stream has given out
Consumed == SubSeq(tk.inp, 1, tk.ipos)

NewlinesIn(s) == Cardinality({i \in 1..Len(s) : s[i] = NL})

\* place of the last newline of s, 0 if it has none
LastNewline(s) ==
    IF \E i \in 1..Len(s) : s[i] = NL
    THEN CHOOSE i \in 1..Len(s) : s[i] = NL /\ \A j \in (i + 1)..Len(s) : s[j] # NL
    ELSE 0

\* C9: once GetNextToken has been left, by return or by throw, no labile flag
\* set for it is still set
C9_FlagsNotRetained ==
    phase = "pulled" /\ ~tk.hung => tk.labileFlags = {}

\* C10: once GetNextToken has been left, filepos, fileline and filecol are
\* those of the last character taken from the stream
C10_PositionFollowsStream ==
    phase = "pulled" /\ ~tk.hung =>
        /\ tk.filepos = tk.ipos
        /\ tk.fileline = 1 + NewlinesIn(Consumed)
        /\ tk.filecol = 1 + Len(Consumed) - LastNewline(Consumed)

\* ------------------------------------------------------------------------
\* The tokenizer on quoted, bracketed and punctuation tokens: a caller sets
\* labile flags and the special punctuation character and pulls tokens
\* ------------------------------------------------------------------------
MaxLexLen == 3
LexChars == {"a", "_", "'", "{", "}", "(", "+"}
LexFlags == {"curlyBracketedToken", "parentheticalToken", "useSpecialPunctuation"}
LexSpecials == {"a", "_"}

\* the quoted word 'a''b'
QuoteExample == <<"'", "a", "'", "'", "b", "'">>

InitLex ==
    /\ phase = "tok"
    /\ tk \in {NexusToken(inp) : inp \in SeqsUpTo(LexChars, MaxLexLen) \cup {QuoteExample}}
    /\ blockList = "NULL"
    /\ blocks = <<>>
    /\ taxa = <<>>
    /\ cb = <<>>
    /\ ex = Idle

\* a caller sets one labile flag before a pull
LexSetLabileFlagBit ==
    /\ phase \in {"tok", "pulled"}
    /\ ~tk.hung
    /\ \E bit \in LexFlags :
          /\ bit \notin tk.labileFlags
          /\ tk' = SetLabileFlagBit(tk, bit)
    /\ phase' = "tok"
    /\ UNCHANGED <<blockList, blocks, taxa, cb, ex>>

\* a caller names the special punctuation character
LexSetSpecialPunctuationCharacter ==
    /\ phase \in {"tok", "pulled"}
    /\ ~tk.hung
    /\ \E c \in LexSpecials :
          /\ tk.special # c
          /\ tk' = SetSpecialPunctuationCharacter(tk, c)
    /\ phase' = "tok"
    /\ UNCHANGED <<blockList, blocks, taxa, cb, ex>>

NextLex == LexSetLabileFlagBit \/ LexSetSpecialPunctuationCharacter \/ TokGetNextToken

SpecLex == InitLex /\ [][NextLex]_vars

\* the character a pull starts with when no whitespace or comment is ahead:
\* the one saved by the pull before, else the next one of the stream
FirstChar == IF tk.saved # NUL THEN tk.saved ELSE Peek(tk)

\* the characters of the document after FirstChar
Rest == SubSeq(tk.inp, tk.ipos + (IF tk.saved # NUL THEN 1 ELSE 2), Len(tk.inp))

\* the place in s, from i on, of the first quote that is not one of a pair; 0 if none
RECURSIVE IsolatedQuote(_, _)
IsolatedQuote(s, i) ==
    IF i > Len(s) THEN 0
    ELSE IF s[i] # "'" THEN IsolatedQuote(s, i + 1)
    ELSE IF i + 1 <= Len(s) /\ s[i + 1] = "'" THEN IsolatedQuote(s, i + 2)
    ELSE i

\* s[i..k-1], a part that ends before an isolated quote, every pair of quotes
\* written as one quote and, if blanks, every underscore as a blank
RECURSIVE QuotedText(_, _, _, _)
QuotedText(s, i, k, blanks) ==
    IF i >= k THEN <<>>
    ELSE IF s[i] = "'" THEN <<"'">> \o QuotedText(s, i + 2, k, blanks)
    ELSE <<(IF blanks /\ s[i] = "_" THEN " " ELSE s[i])>> \o QuotedText(s, i + 1, k, blanks)

\* the place in s, from i on, of the close that brings level to 0; 0 if none
RECURSIVE MatchingClose(_, _, _, _, _)
MatchingClose(s, i, level, open, close) ==
    IF i > Len(s) THEN 0
    ELSE IF s[i] = close
         THEN IF level = 1 THEN i ELSE MatchingClose(s, i + 1, level - 1, open, close)
    ELSE IF s[i] = open THEN MatchingClose(s, i + 1, level + 1, open, close)
    ELSE MatchingClose(s, i + 1, level, open, close)

\* the pull at hand starts a quoted, curly-bracketed or parenthetical token
\* that the rest of the document does not close
UnclosedAhead ==
    \/ FirstChar = "'" /\ IsolatedQuote(Rest, 1) = 0
    \/ /\ FirstChar = "{" /\ "curlyBracketedToken" \in tk.labileFlags
       /\ MatchingClose(Rest, 1, 1, "{", "}") = 0
    \/ /\ FirstChar = "(" /\ "parentheticalToken" \in tk.labileFlags
       /\ MatchingClose(Rest, 1, 1, "(", ")") = 0

\* C11: a pull that starts a quoted, curly-bracketed or parenthetical token
\* which the document ends without closing throws an XNexus.
C11_EndOfInputRaises ==
    [][(TokGetNextToken /\ ~tk.atEOF /\ UnclosedAhead) => tk'.x.thrown]_vars

\* C12 as stated: a pull that starts with a single quote returns the
\* characters up to the first isolated quote as they stand, every pair of
\* quotes as one quote.
C12_QuotedLiteral ==
    [][(TokGetNextToken /\ ~tk.atEOF /\ FirstChar = "'" /\ IsolatedQuote(Rest, 1) # 0)
       => tk'.token = QuotedText(Rest, 1, IsolatedQuote(Rest, 1), FALSE)]_vars

\* C12 amended: a pull that starts with a single quote returns the characters
\* up to the first isolated quote, every pair of quotes as one quote and
\* every underscore as a blank.
C12_QuotedText ==
    [][(TokGetNextToken /\ ~tk.atEOF /\ FirstChar = "'" /\ IsolatedQuote(Rest, 1) # 0)
       => tk'.token = QuotedText(Rest, 1, IsolatedQuote(Rest, 1), TRUE)]_vars

\* the word 'a''b' has been pulled and reads a'b
C12_Witness ==
    phase = "pulled" /\ tk.inp = QuoteExample /\ tk.token = <<"a", "'", "b">>

\* the pull at hand starts with a character of the punctuation set or with
\* the special character while useSpecialPunctuation is set
PunctuationAhead ==
    \/ FirstChar \in Punctuation
    \/ "useSpecialPunctuation" \in tk.labileFlags /\ FirstChar = tk.special

\* the pull at hand starts with a character that GetNextToken takes as the
\* start of a longer token, or tests for before it asks IsPunctuation
OpensLongerToken ==
    \/ FirstChar \in {"'", "[", "_"}
    \/ FirstChar = "(" /\ "parentheticalToken" \in tk.labileFlags
    \/ FirstChar = "{" /\ "curlyBracketedToken" \in tk.labileFlags
    \/ FirstChar = DQUOTE /\ "doubleQuotedToken" \in tk.labileFlags
    \/ FirstChar = "-" /\ "hyphenNotPunctuation" \in tk.labileFlags

\* C13 as stated: a pull that starts with a punctuation character returns
\* that character alone, except that + or - in front of a character that is
\* no punctuation is returned together with the token that follows.
C13_SignsAbsorbed ==
    [][(TokGetNextToken /\ ~tk.atEOF /\ PunctuationAhead)
       => IF FirstChar \in {"+", "-"} /\ Rest # <<>> /\ Rest[1] \notin Punctuation
          THEN Len(tk'.token) > 1 /\ tk'.token[1] = FirstChar
          ELSE tk'.token = <<FirstChar>>]_vars

\* C13 amended: a pull that starts with a punctuation character, + and -
\* included, returns that character alone, unless the character opens a
\* longer token (a quote, a comment, a bracketed token asked for by flag).
C13_PunctuationAlone ==
    [][(TokGetNextToken /\ ~tk.atEOF /\ PunctuationAhead /\ ~OpensLongerToken)
       => tk'.token = <<FirstChar>>]_vars

\* the document +a has given the token + and the a is still to come
C13_Witness ==
    phase = "pulled" /\ tk.inp = <<"+", "a">> /\ tk.token = <<"+">> /\ tk.ipos = 1

\* C14: a pull with parentheticalToken set that starts with ( returns the
\* text from the ( to its matching ) and leaves the stream right after it.
C14_ParenTokenExact ==
    [][(/\ TokGetNextToken /\ ~tk.atEOF
        /\ FirstChar = "(" /\ "parentheticalToken" \in tk.labileFlags
        /\ MatchingClose(Rest, 1, 1, "(", ")") # 0)
       => /\ tk'.token = <<"(">> \o SubSeq(Rest, 1, MatchingClose(Rest, 1, 1, "(", ")"))
          /\ tk'.saved = NUL
          /\ tk'.ipos = Len(tk.inp) - Len(Rest) + MatchingClose(Rest, 1, 1, "(", ")")]_vars

\* ------------------------------------------------------------------------
\* Execute on whole documents: the host registers handlers, disables and
\* enables them, and runs Execute once on a document
\* ------------------------------------------------------------------------

\* a TAXA section that reads, its keywords in mixed case
F_TaxaOk == <<"b","e","g","i","n"," ","T","a","x","a",";","D","I","M","E","N","S","I","O","N","S"," ","N","T","A","X","=","1",";","T","A","X","L","A","B","E","L","S"," ","a",";","E","N","D",";",NL>>

\* a TAXA section its handler refuses
F_TaxaBad == <<"B","E","G","I","N"," ","T","A","X","A",";","D","I","M","E","N","S","I","O","N","S"," ","N","T","A","X","=","0",";","E","N","D",";",NL>>

\* a TAXA section with a token the tokenizer refuses
F_TaxaQuote == <<"B","E","G","I","N"," ","T","A","X","A",";","a","b","'","c","'",";","E","N","D",";",NL>>

\* a section no handler is written for
F_Foo == <<"B","E","G","I","N"," ","F","O","O",";","x",";","E","N","D",";",NL>>

\* the same with a token the tokenizer refuses
F_FooQuote == <<"B","E","G","I","N"," ","F","O","O",";","a","b","'","c","'",";","E","N","D",";",NL>>

\* the same without its END
F_FooNoEnd == <<"B","E","G","I","N"," ","F","O","O",";","x",";">>

\* a refused token between sections
F_Quote == <<"a","b","'","c","'"," ">>

\* the command that reports every handler, then the command that ends Execute
F_Leave == <<"&","S","H","O","W","A","L","L"," ","&","L","E","A","V","E"," ">>

ExecFragments == {F_TaxaOk, F_TaxaBad, F_TaxaQuote, F_Foo, F_FooQuote, F_FooNoEnd, F_Quote, F_Leave}

Header == <<"#","N","E","X","U","S",NL>>

MaxSections == 2

\* the documents: the header and up to MaxSections fragments
RECURSIVE DocsOf(_, _)
DocsOf(F, n) ==
    IF n = 0 THEN {<<>>}
    ELSE LET shorter == DocsOf(F, n - 1)
         IN  shorter \cup {d \o f : d \in shorter, f \in F}

ExecDocs == {Header \o d : d \in DocsOf(ExecFragments, MaxSections)}

\* the handlers the host has constructed: two TaxaBlocks and a
\* CharactersBlock that uses the first of them
Handlers == {"T1", "T2", "C"}

NewBlocks ==
    [h \in Handlers |-> IF h = "C" THEN NewNexusBlock("CharactersBlock", CharWords.CHARACTERS)
                        ELSE NewNexusBlock("TaxaBlock", TaxaWords.TAXA)]

InitExec ==
    /\ phase = "exec"
    /\ tk \in {NexusToken(d) : d \in ExecDocs}
    /\ blockList = NULL
    /\ blocks = NewBlocks
    /\ taxa = [h \in {"T1", "T2"} |-> NewTaxa]
    /\ cb = NewCharactersBlock("T1")
    /\ ex = ExecIdle

\* the handlers the host registers here: the two that bear the same id
ExecHandlers == {"T1", "T2"}

NextExec ==
    \/ \E h \in ExecHandlers : Add(h)
    \/ \E h \in ExecHandlers : Disable(h)
    \/ \E h \in ExecHandlers : Enable(h)
    \/ Execute
    \/ ExecuteLoop
    \/ ExecuteRead
    \/ ExecuteSkip

SpecExec == InitExec /\ [][NextExec]_vars

\* ------------------------------------------------------------------------
\* Properties of Execute, read off the record ex.log
\* ------------------------------------------------------------------------
LogIdx == 1..Len(ex.log)

IsEv(k, e) == ex.log[k].e = e

\* the entries named e of the section that entry s opens
EntriesIn(s, e) ==
    {k \in s..Len(ex.log) : IsEv(k, e) /\ \A r \in (s + 1)..k : ~IsEv(r, "BEGIN")}

\* the registered handlers in registry order
Registered == Chain(blocks, blockList)

\* places in the registry of the handlers whose id is name, whatever the case
Matching(name) == {i \in 1..Len(Registered) : ToUpperStr(blocks[Registered[i]].id) = name}

EnabledMatching(name) == {i \in Matching(name) : blocks[Registered[i]].isEnabled}

\* place of the first enabled handler of that name, 0 if there is none
FirstEnabled(name) ==
    IF EnabledMatching(name) = {} THEN 0
    ELSE CHOOSE i \in EnabledMatching(name) : \A j \in EnabledMatching(name) : i <= j

\* the unread part of the document still holds the start of a section
SectionAhead ==
    \E i \in (tk.ipos + 1)..(Len(tk.inp) - 4) : ToUpperStr(SubSeq(tk.inp, i, i + 4)) = NexusWords.BEGIN

\* the handler's own data is what Reset leaves
IsReset(h) ==
    /\ blocks[h].isEmpty
    /\ IF blocks[h].class = "TaxaBlock" THEN taxa[h] = NewTaxa
       ELSE /\ cb.matrix = NoMatrix /\ cb.charPos = NoArray /\ cb.taxonPos = NoArray
            /\ cb.eliminated = {} /\ cb.charLabels = <<>> /\ cb.charStates = <<>>
            /\ cb.ntax = 0 /\ cb.nchar = 0

\* C1: when Read of the handler that took a section raises an XNexus, Execute
\* passes the error's position to NexusError, resets that handler and returns:
\* the reset is the last thing Execute does, so no section after the failing
\* one is read
C1_ReadErrorEndsExecute ==
    \A k \in LogIdx : IsEv(k, "Raised") =>
        LET h == ex.log[k].a.h
            x == ex.log[k].a.x
        IN  /\ Len(ex.log) = k + 2
            /\ IsEv(k + 1, "NexusError")
            /\ ex.log[k + 1].a.pos = x.pos
            /\ ex.log[k + 1].a.line = x.line
            /\ ex.log[k + 1].a.col = x.col
            /\ ex.log[k + 2] = Ev("Reset", h)
            /\ IsReset(h)
            /\ ex.pc = "returned"

\* a Read has failed while the document still had a section to offer
C1_Witness ==
    /\ \E k \in LogIdx : IsEv(k, "Raised")
    /\ SectionAhead
    /\ ex.pc = "returned"

\* C2: no error raised on malformed input leaves Execute: Execute never ends
\* by an exception that propagates to its caller
C2_NoErrorLeavesExecute == ex.pc # "escaped"

\* C3: a section whose name is the id of an enabled registered handler is
\* read once, by the first such handler of the registry, and that handler's
\* Reset comes right before its Read
C3_ResetThenRead ==
    \A s \in LogIdx : IsEv(s, "BEGIN") /\ FirstEnabled(ex.log[s].a.name) # 0 =>
        LET F == Registered[FirstEnabled(ex.log[s].a.name)]
        IN  /\ Cardinality(EntriesIn(s, "Read")) = 1
            /\ \A k \in EntriesIn(s, "Read") :
                  /\ ex.log[k] = Ev("Read", F)
                  /\ ex.log[k - 1] = Ev("Reset", F)
                  /\ \A r \in (s + 1)..(k - 2) : ~IsEv(r, "Reset") /\ ~IsEv(r, "Read")

\* a section was read to its end while two enabled handlers bore its name
C3_Witness ==
    \E s \in LogIdx :
        /\ IsEv(s, "BEGIN")
        /\ Cardinality(EnabledMatching(ex.log[s].a.name)) >= 2
        /\ EntriesIn(s, "ExitingBlock") # {}

\* the semicolon of the first END; at or after position p of the document
IsEndAt(i) == i + 3 <= Len(tk.inp) /\ ToUpperStr(SubSeq(tk.inp, i, i + 3)) = <<"E", "N", "D", ";">>

EndsSection(p, q) ==
    \E i \in p..Len(tk.inp) : IsEndAt(i) /\ q = i + 3 /\ \A j \in p..(i - 1) : ~IsEndAt(j)

\* the disabled handlers of that name the scan passes before it stops
PassedOver(name) ==
    IF FirstEnabled(name) = 0 THEN Matching(name)
    ELSE {i \in Matching(name) : i < FirstEnabled(name)}

\* C4 as stated: a section whose name is the id of a disabled handler is read
\* by no handler and gets exactly one notice, SkippingDisabledBlock; a section
\* no handler is named after gets exactly one notice, SkippingBlock
C4_OneNoticeNoRead ==
    \A s \in LogIdx : IsEv(s, "BEGIN") =>
        LET name == ex.log[s].a.name
        IN  /\ Matching(name) # EnabledMatching(name) =>
                  /\ EntriesIn(s, "Read") = {}
                  /\ Cardinality(EntriesIn(s, "SkippingDisabledBlock")) = 1
                  /\ EntriesIn(s, "SkippingBlock") = {}
            /\ Matching(name) = {} =>
                  /\ EntriesIn(s, "Read") = {}
                  /\ Cardinality(EntriesIn(s, "SkippingBlock")) = 1
                  /\ EntriesIn(s, "SkippingDisabledBlock") = {}

\* C4, amended: every disabled handler of the section's name that the scan
\* passes gets one SkippingDisabledBlock notice; when no enabled handler bears
\* the name the section is read by no handler, it gets the SkippingBlock
\* notice once if no handler at all bears the name and never otherwise, and
\* the skipping ends at the semicolon of the section's first END; a section
\* that follows is treated by the same rules
C4_SkippedSections ==
    \A s \in LogIdx : IsEv(s, "BEGIN") =>
        LET name == ex.log[s].a.name
        IN  /\ Cardinality(EntriesIn(s, "SkippingDisabledBlock")) = Cardinality(PassedOver(name))
            /\ FirstEnabled(name) = 0 =>
                  /\ EntriesIn(s, "Read") = {}
                  /\ Cardinality(EntriesIn(s, "SkippingBlock")) = (IF Matching(name) = {} THEN 1 ELSE 0)
                  /\ Cardinality(EntriesIn(s, "Skipped")) <= 1
                  /\ \A k \in EntriesIn(s, "Skipped") : EndsSection(ex.log[s].a.pos, ex.log[k].a)
            /\ FirstEnabled(name) # 0 =>
                  /\ EntriesIn(s, "SkippingBlock") = {}
                  /\ EntriesIn(s, "Skipped") = {}
                  /\ EntriesIn(s, "Read") # {}

\* a section two disabled handlers are named after was skipped to its END,
\* and Execute went on to the section after it
C4_Witness ==
    \E s \in LogIdx : \E k \in LogIdx :
        /\ IsEv(s, "BEGIN")
        /\ FirstEnabled(ex.log[s].a.name) = 0
        /\ Cardinality(Matching(ex.log[s].a.name)) >= 2
        /\ k \in EntriesIn(s, "Skipped")
        /\ \E r \in (k + 1)..Len(ex.log) : IsEv(r, "BEGIN")

\* ------------------------------------------------------------------------
\* A CHARACTERS section of three characters and the commands that may follow
\* its DIMENSIONS command, in any order
\* ------------------------------------------------------------------------
\* the start of the section
CharOpening == <<"B","E","G","I","N"," ","C","H","A","R","A","C","T","E","R","S",";","D","I","M","E","N","S","I","O","N","S"," ","N","E","W","T","A","X","A"," ","N","T","A","X","=","1"," ","N","C","H","A","R","=","3",";">>

CharFragments ==
    {<<"E","L","I","M","I","N","A","T","E"," ","2",";">>,
     <<"E","L","I","M","I","N","A","T","E"," ","1"," ","3",";">>,
     <<"E","L","I","M","I","N","A","T","E",";">>,
     <<"C","H","A","R","L","A","B","E","L","S"," ","x"," ","y"," ","z",";">>,
     <<"C","H","A","R","S","T","A","T","E","L","A","B","E","L","S"," ","1"," ","x","/","p"," ","q",";">>,
     <<"S","T","A","T","E","L","A","B","E","L","S"," ","1"," ","p"," ","q",";">>,
     <<"M","A","T","R","I","X"," ","a"," ","0","1","0",";">>,
     <<"D","I","M","E","N","S","I","O","N","S"," ","N","C","H","A","R","=","4",";">>}

MaxCommands == 3

CharDocs ==
    {Header \o CharOpening \o d \o <<"E","N","D",";",NL>> : d \in DocsOf(CharFragments, MaxCommands)}

InitChar ==
    /\ phase = "exec"
    /\ tk \in {NexusToken(d) : d \in CharDocs}
    /\ blockList = NULL
    /\ blocks = NewBlocks
    /\ taxa = [h \in {"T1", "T2"} |-> NewTaxa]
    /\ cb = NewCharactersBlock("T1")
    /\ ex = ExecIdle

\* the host registers the CharactersBlock or leaves the registry empty
NextChar ==
    \/ Add("C")
    \/ Execute
    \/ ExecuteLoop
    \/ ExecuteRead
    \/ ExecuteSkip

SpecChar == InitChar /\ [][NextChar]_vars

\* the original indices of the characters, as DIMENSIONS last gave them
OrigIndices == 0..(cb.ncharTotal - 1)

\* C5: whenever the column index map (charPos) exists, it has an entry for
\* every original index; the entry of an eliminated index is -1, the entry
\* of any other index is not negative, and the entries of two indices that
\* are not eliminated increase strictly with the index (hence are unique).
C5_IndexMapOrdered ==
    cb.charPos.alloc =>
        /\ \A j \in OrigIndices : j + 1 \in DOMAIN cb.charPos.a
        /\ \A j \in OrigIndices : j + 1 \in DOMAIN cb.charPos.a =>
              IF IsEliminated(cb, j) THEN GetCharPos(cb, j) = -1 ELSE GetCharPos(cb, j) >= 0
        /\ \A i, j \in OrigIndices :
              (/\ i < j /\ j + 1 \in DOMAIN cb.charPos.a
               /\ ~IsEliminated(cb, i) /\ ~IsEliminated(cb, j))
              => GetCharPos(cb, i) < GetCharPos(cb, j)

\* the map after a section of one DIMENSIONS command whose ELIMINATE took
\* the second character out
C5_Witness ==
    /\ cb.charPos.alloc /\ cb.eliminated = {1} /\ cb.ncharTotal = 3
    /\ cb.charPos.a = <<0, -1, 1>>

\* the commands of the section that entry k belongs to that were read before it
CommandsBefore(k) ==
    {j \in 1..(k - 1) : IsEv(j, "Command") /\ \A r \in j..k : ~IsEv(r, "Read")}

\* C6: an ELIMINATE command that follows, in its section, a CHARLABELS,
\* CHARSTATELABELS, STATELABELS or MATRIX command or another ELIMINATE
\* command raises an XNexus (which Execute reports and returns upon),
\* whatever columns the commands name.
C6_LateEliminateRaises ==
    \A k \in LogIdx :
        (/\ IsEv(k, "Command") /\ ex.log[k].a = CharWords.ELIMINATE
         /\ \E j \in CommandsBefore(k) :
               ex.log[j].a \in {CharWords.CHARLABELS, CharWords.CHARSTATELABELS,
                                CharWords.STATELABELS, CharWords.MATRIX, CharWords.ELIMINATE})
        => /\ k + 2 <= Len(ex.log)
           /\ IsEv(k + 1, "Raised") /\ ex.log[k + 1].a.x.kind = "XNexus"
           /\ IsEv(k + 2, "NexusError")
           /\ ex.pc = "returned"

\* a second ELIMINATE that names no column, after one that named one
C6_Witness ==
    \E k \in LogIdx :
        /\ IsEv(k, "Command") /\ ex.log[k].a = CharWords.ELIMINATE
        /\ \E j \in CommandsBefore(k) : ex.log[j].a = CharWords.ELIMINATE
        /\ \E i \in 1..(Len(tk.inp) - 10) :
              SubSeq(tk.inp, i, i + 10) = <<";","E","L","I","M","I","N","A","T","E",";">>
        /\ IsEv(k + 1, "Raised")

\* ------------------------------------------------------------------------
\* A CHARACTERS section whose MATRIX command is written from given data,
\* as one page or as interleave pages
\* ------------------------------------------------------------------------
MaxTax == 2
MaxCols == 3

\* what a cell that is not the state 0 holds: the state 1, missing, or the
\* polymorphic pair of both states
OtherCells == {<<"1">>, <<"?">>, <<"(","0","1",")">>}

\* the matrices of n rows and c columns in which every cell is the state 0,
\* or every cell but one
DataOf(n, c) ==
    LET zero == [i \in 1..n |-> [j \in 1..c |-> <<"0">>]]
    IN  {zero} \cup {[zero EXCEPT ![i][j] = v] : i \in 1..n, j \in 1..c, v \in OtherCells}

\* three rows of five columns with missing and polymorphic cells
Example3x5 ==
    << <<<<"0">>, <<"1">>, <<"?">>, <<"(","0","1",")">>, <<"1">>>>,
       <<<<"1">>, <<"(","0","1",")">>, <<"0">>, <<"?">>, <<"0">>>>,
       <<<<"?">>, <<"0">>, <<"1">>, <<"1">>, <<"0">>>> >>

\* the ways to cut c columns into pages: the widths of the pages
RECURSIVE Compositions(_)
Compositions(c) ==
    IF c = 0 THEN {<<>>}
    ELSE UNION {{<<w>> \o r : r \in Compositions(c - w)} : w \in 1..c}

HasParen(d) == \E i \in DOMAIN d : \E j \in DOMAIN d[i] : Len(d[i][j]) > 1

\* what a document is written from: the data, whether FORMAT INTERLEAVE is
\* given, the widths of the pages, and rag: <<>> or <<p, i, delta>> when row
\* i > 1 of page p is written with one column less or one column (0) more
\* than the first row of that page
Givens(d) ==
    LET c == Len(d[1])
        whole == [data |-> d, interleave |-> FALSE, pages |-> <<c>>, rag |-> <<>>]
        paged == {[data |-> d, interleave |-> TRUE, pages |-> pg, rag |-> <<>>] : pg \in Compositions(c)}
        ragged == {[g EXCEPT !.rag = <<p, i, delta>>] :
                      g \in paged, p \in 1..c, i \in 2..Len(d), delta \in {-1, 1}}
    IN  {whole} \cup paged
        \cup (IF HasParen(d) THEN {} ELSE {g \in ragged : g.rag[1] <= Len(g.pages)})

MatrixGivens ==
    UNION {Givens(d) : d \in UNION {DataOf(n, c) : n \in 1..MaxTax, c \in 2..MaxCols}}
    \cup {[data |-> Example3x5, interleave |-> FALSE, pages |-> <<5>>, rag |-> <<>>],
          [data |-> Example3x5, interleave |-> TRUE, pages |-> <<3, 2>>, rag |-> <<>>]}

\* the cells first..last of a row, written one after the other
RECURSIVE CellsText(_, _, _)
CellsText(row, first, last) ==
    IF first > last THEN <<>> ELSE row[first] \o CellsText(row, first + 1, last)

\* rows i.. of page p, which starts at column first
RECURSIVE RowsText(_, _, _, _)
RowsText(g, p, first, i) ==
    LET last == first + g.pages[p] - 1
        cells == IF g.rag = <<p, i, -1>> THEN CellsText(g.data[i], first, last - 1)
                 ELSE IF g.rag = <<p, i, 1>> THEN CellsText(g.data[i], first, last) \o <<"0">>
                 ELSE CellsText(g.data[i], first, last)
    IN  IF i > Len(g.data) THEN <<>>
        ELSE <<(<<"a", "b", "c", "d">>)[i], " ">> \o cells \o <<NL>> \o RowsText(g, p, first, i + 1)

RECURSIVE PagesText(_, _, _)
PagesText(g, p, first) ==
    IF p > Len(g.pages) THEN <<>>
    ELSE RowsText(g, p, first, 1) \o PagesText(g, p + 1, first + g.pages[p])

MatrixDoc(g) ==
    Header \o <<"B","E","G","I","N"," ","C","H","A","R","A","C","T","E","R","S",";","D","I","M","E","N","S","I","O","N","S"," ","N","E","W","T","A","X","A"," ","N","T","A","X","=">> \o <<Digits[Len(g.data) + 1]>>
           \o <<" ","N","C","H","A","R","=">> \o <<Digits[Len(g.data[1]) + 1], ";">>
           \o (IF g.interleave THEN <<"F","O","R","M","A","T"," ","I","N","T","E","R","L","E","A","V","E",";">> ELSE <<>>)
           \o <<"M","A","T","R","I","X",NL>> \o PagesText(g, 1, 1) \o <<";","E","N","D",";",NL>>

InitMatrix ==
    /\ phase = "exec"
    /\ \E g \in MatrixGivens :
          /\ tk = NexusToken(MatrixDoc(g))
          /\ ex = [ExecIdle EXCEPT !.given = g]
    /\ blockList = NULL
    /\ blocks = NewBlocks
    /\ taxa = [h \in {"T1", "T2"} |-> NewTaxa]
    /\ cb = NewCharactersBlock("T1")

SpecMatrix == InitMatrix /\ [][NextChar]_vars

\* Execute has returned or has been left in some other way
Ended(e) == e.pc \notin {"idle", "loop", "read", "skip"}

\* Execute returned and reported no error
Normal(e) == e.pc = "returned" /\ \A k \in 1..Len(e.log) : e.log[k].e # "NexusError"

\* the CharactersBlock was registered and took the section
TookSection == \E k \in LogIdx : IsEv(k, "Read")

\* Execute of the same data written as one page without FORMAT INTERLEAVE,
\* with the registry as it is and the handlers as constructed
WholeRun(g) ==
    RunExecute([Machine EXCEPT
                    !.tk = NexusToken(MatrixDoc([g EXCEPT !.interleave = FALSE,
                                                          !.pages = <<Len(g.data[1])>>])),
                    !.taxa = [h \in {"T1", "T2"} |-> NewTaxa],
                    !.cb = NewCharactersBlock("T1")],
               ExecIdle)

\* C7: when the data is written as two or more interleave pages, all rows of
\* a page of the same width, Execute returns without an error, as it does for
\* the one-page document, and leaves the matrix (the states and the
\* polymorphic flag of every cell) that the one-page document leaves.
C7_PagesAsOnePage ==
    (Ended(ex) /\ TookSection /\ Len(ex.given.pages) >= 2 /\ ex.given.rag = <<>>)
    => LET w == WholeRun(ex.given)
       IN  /\ Normal(ex)
           /\ Normal(w[2])
           /\ cb.matrix = w[1].cb.matrix

\* C8: when a row of an interleave page is written with a number of columns
\* other than that of the first row of the page, Read raises an XNexus,
\* which carries the position, and Execute reports it.
C8_UnevenRowRaises ==
    (Ended(ex) /\ TookSection /\ ex.given.rag # <<>>)
    => \E k \in LogIdx : IsEv(k, "Raised") /\ ex.log[k].a.x.kind = "XNexus"

\* ------------------------------------------------------------------------
\* SetReader on whole set texts: a caller constructs a SetReader over a
\* token stream that holds one set text, then calls Run once.  In these
\* behaviours ex is the SetReader and its caller: ex.given the text as
\* written, ex.nxsset the caller's IntSet, ex.retval what Run returned.
\* ------------------------------------------------------------------------

\* the number of characters max that the set texts are read against
SetMax == 3
MaxMembers == 2
SetStrides == {2}
SetLabels == <<<<"p">>, <<"q">>>>
UnknownLabel == <<"z">>

\* the decimal text of n
RECURSIVE Numeral(_)
Numeral(n) == IF n < 10 THEN <<Digits[n + 1]>> ELSE Numeral(n \div 10) \o <<Digits[(n % 10) + 1]>>

StrideText(n) == IF n = 0 THEN <<>> ELSE <<"\\">> \o Numeral(n)

\* the members a set text is written from
Value(a) == [kind |-> "value", a |-> a, b |-> a, n |-> 0, label |-> <<>>]
Range(a, b, n) == [kind |-> "range", a |-> a, b |-> b, n |-> n, label |-> <<>>]
Through(a, n) == [kind |-> "through", a |-> a, b |-> 0, n |-> n, label |-> <<>>]
All == [kind |-> "all", a |-> 0, b |-> 0, n |-> 0, label |-> <<>>]
Label(s) == [kind |-> "label", a |-> 0, b |-> 0, n |-> 0, label |-> s]
\* a '-', a '.' or a stride with nothing before it
LoneDash(a) == [kind |-> "lonedash", a |-> a, b |-> a, n |-> 0, label |-> <<>>]
LoneDot == [kind |-> "lonedot", a |-> 0, b |-> 0, n |-> 0, label |-> <<>>]
LoneStride(n) == [kind |-> "lonestride", a |-> 0, b |-> 0, n |-> n, label |-> <<>>]
\* a stride after a single value, and a stride between '-' and the range end
ValueStride(a, n) == [kind |-> "valuestride", a |-> a, b |-> a, n |-> n, label |-> <<>>]
EarlyStride(a, b, n) == [kind |-> "earlystride", a |-> a, b |-> b, n |-> n, label |-> <<>>]
\* a second '-' after the end of a range
DoubleDash(a, b, c) == [kind |-> "doubledash", a |-> a, b |-> b, n |-> c, label |-> <<>>]
\* a '-' with no range end after it
Dangling(a) == [kind |-> "dangling", a |-> a, b |-> 0, n |-> 0, label |-> <<>>]

MemberText(mem) ==
    CASE mem.kind = "value" -> Numeral(mem.a)
      [] mem.kind = "range" -> Numeral(mem.a) \o <<"-">> \o Numeral(mem.b) \o StrideText(mem.n)
      [] mem.kind = "through" -> Numeral(mem.a) \o <<"-", ".">> \o StrideText(mem.n)
      [] mem.kind = "all" -> <<"A", "L", "L">>
      [] mem.kind = "label" -> mem.label
      [] mem.kind = "lonedash" -> <<"-">> \o Numeral(mem.a)
      [] mem.kind = "lonedot" -> <<".">>
      [] mem.kind = "lonestride" -> StrideText(mem.n)
      [] mem.kind = "valuestride" -> Numeral(mem.a) \o StrideText(mem.n)
      [] mem.kind = "earlystride" -> Numeral(mem.a) \o <<"-">> \o StrideText(mem.n) \o <<" ">> \o Numeral(mem.b)
      [] mem.kind = "doubledash" -> Numeral(mem.a) \o <<"-">> \o Numeral(mem.b) \o <<"-">> \o Numeral(mem.n)
      [] mem.kind = "dangling" -> Numeral(mem.a) \o <<"-">>

\* the set text: the members separated by blanks, then the semicolon
RECURSIVE SetText(_, _)
SetText(members, i) ==
    IF i > Len(members) THEN <<";">>
    ELSE MemberText(members[i]) \o (IF i < Len(members) THEN <<" ">> ELSE <<>>) \o SetText(members, i + 1)

\* the members that may stand anywhere in a text, those that can only open
\* one and those that can only close one: elsewhere their tokens would read
\* as a part of the member next to them
InnerMembers(max) ==
    {Value(a) : a \in 0..(max + 1)}
    \cup {Range(a, b, 0) : a \in 1..max, b \in 1..(max + 1)}
    \cup UNION {{Range(a, b, n) : b \in (a + 1)..max, n \in SetStrides} : a \in 1..max}
    \cup {Through(a, 0) : a \in 1..max}
    \cup {Through(a, n) : a \in 1..(max - 1), n \in SetStrides}
    \cup {Label(SetLabels[2]), Label(UnknownLabel)}
    \cup {ValueStride(1, 2), EarlyStride(1, max, 2), DoubleDash(1, 2, max)}
OpeningMembers == {All, LoneDash(2), LoneDot, LoneStride(2)}
ClosingMembers == {Dangling(1)}

SetTexts(max, len) ==
    UNION {{s \in [1..k -> InnerMembers(max) \cup OpeningMembers \cup ClosingMembers] :
              \A i \in 1..k : /\ s[i] \in OpeningMembers => i = 1
                              /\ s[i] \in ClosingMembers => i = k}
           : k \in 1..len}

\* the two set texts the documentation of SetReader works out
SetExampleAll == [members |-> <<All>>, max |-> 5]
SetExampleMixed == [members |-> <<Range(4, 7, 0), Value(15), Through(20, 3)>>, max |-> 30]

SetInputs ==
    {[members |-> s, max |-> SetMax] : s \in SetTexts(SetMax, MaxMembers)}
    \cup {SetExampleAll, SetExampleMixed}

\* a characters block of max characters whose labels are SetLabels
SetBlock(max) ==
    [NewCharactersBlock("T1") EXCEPT !.ncharTotal = max, !.nchar = max, !.charLabels = SetLabels]

InitSet ==
    /\ phase = "set"
    /\ blockList = NULL
    /\ blocks = NewBlocks
    /\ taxa = [h \in {"T1", "T2"} |-> NewTaxa]
    /\ \E g \in SetInputs :
          /\ tk = NexusToken(SetText(g.members, 1))
          /\ cb = SetBlock(g.max)
          /\ ex = [pc |-> "caller", given |-> g, nxsset |-> {g.max - 1}, retval |-> FALSE]

\* SetReader::SetReader( token, max, nxsset, block, charset )
SetConstruct ==
    /\ phase = "set"
    /\ ex.pc = "caller"
    /\ ex' = [ex EXCEPT !.pc = "constructed", !.nxsset = SetReader([Machine EXCEPT !.nxsset = ex.nxsset]).nxsset]
    /\ UNCHANGED <<phase, tk, blockList, blocks, taxa, cb>>

\* SetReader::Run
SetRun ==
    /\ phase = "set"
    /\ ex.pc = "constructed"
    /\ \E r \in {SetReaderRun([Machine EXCEPT !.nxsset = ex.nxsset], "C", ex.given.max,
                              [rangeBegin |-> -1, rangeEnd |-> -1, insideRange |-> FALSE, modValue |-> 0])} :
          /\ tk' = r.tk
          /\ blocks' = r.blocks
          /\ ex' = [ex EXCEPT !.pc = "ran", !.nxsset = r.nxsset, !.retval = r.retval]
    /\ UNCHANGED <<phase, blockList, taxa, cb>>

NextSet == SetConstruct \/ SetRun

SpecSet == InitSet /\ [][NextSet]_vars

\* the 1-based values a member covers when the largest value is max
Covered(mem, max) ==
    CASE mem.kind = "value" -> {mem.a}
      [] mem.kind = "range" ->
            {v \in mem.a..mem.b : mem.n = 0 \/ (v - mem.a) % mem.n = 0}
      [] mem.kind = "through" ->
            {v \in mem.a..max : mem.n = 0 \/ (v - mem.a) % mem.n = 0}
      [] mem.kind = "all" -> 1..max
      [] mem.kind = "label" -> {i \in 1..Len(SetLabels) : SetLabels[i] = mem.label}
      [] OTHER -> {}

\* a member the grammar allows and whose values lie in 1..max
WellFormed(mem, max) ==
    CASE mem.kind = "value" -> mem.a \in 1..max
      [] mem.kind = "range" -> mem.a \in 1..max /\ mem.b \in mem.a..max
      [] mem.kind = "through" -> mem.a \in 1..max
      [] mem.kind = "all" -> TRUE
      [] mem.kind = "label" -> \E i \in 1..Len(SetLabels) : SetLabels[i] = mem.label
      [] OTHER -> FALSE

Given == ex.given
AllWellFormed == \A i \in 1..Len(Given.members) : WellFormed(Given.members[i], Given.max)
SetRan == phase = "set" /\ ex.pc = "ran"
Raised == tk.x.thrown

\* C15: once Run has returned on a text of well-formed members, no error was
\* raised and the caller's set holds exactly the indices v-1 of the values v
\* that the members of the text cover.
C15_ExactSet ==
    (SetRan /\ AllWellFormed) =>
        /\ ~Raised
        /\ ex.nxsset = UNION {{v - 1 : v \in Covered(Given.members[i], Given.max)}
                              : i \in 1..Len(Given.members)}

\* C16: on a text of well-formed members of which one has a stride, every
\* member contributes all the values it covers: the strided range the values
\* at offsets 0, N, 2N, ... from its start, every other member all of its
\* values.
C16_StrideScoped ==
    (SetRan /\ AllWellFormed /\ \E i \in 1..Len(Given.members) : Given.members[i].n # 0) =>
        \A i \in 1..Len(Given.members) :
            {v - 1 : v \in Covered(Given.members[i], Given.max)} \subseteq ex.nxsset

\* a member with a value outside 1..max, with an end smaller than its start,
\* or with a '-', '.' or '\' where the grammar has no place for it
Malformed(mem, max) ==
    CASE mem.kind = "value" -> mem.a \notin 1..max
      [] mem.kind = "range" -> mem.a \notin 1..max \/ mem.b \notin 1..max \/ mem.b < mem.a
      [] mem.kind = "through" -> mem.a \notin 1..max
      [] mem.kind \in {"all", "label"} -> FALSE
      [] OTHER -> TRUE

\* C17: once Run has returned on a text with a malformed member, an XNexus
\* that carries the position in the file has been raised.
C17_MalformedRaises ==
    (SetRan /\ \E i \in 1..Len(Given.members) : Malformed(Given.members[i], Given.max)) =>
        Raised /\ tk.x.kind = "XNexus"

LabelNotFound == "Set element not a number and not a valid character label"

\* member i is the only member of the text that is not well-formed
OnlyFault(i) ==
    /\ i \in 1..Len(Given.members)
    /\ \A j \in 1..Len(Given.members) : WellFormed(Given.members[j], Given.max) <=> j # i

UnknownLabelAt(i) == Given.members[i].kind = "label" /\ ~WellFormed(Given.members[i], Given.max)

\* a member that leaves the text 0, or the terminator, where a value stands
ReadsAsZero(mem) == mem.kind = "dangling" \/ (mem.kind = "value" /\ mem.a = 0)

ActiveWhole == Header \o <<"B","E","G","I","N"," ","C","H","A","R","A","C","T","E","R","S",";","D","I","M","E","N","S","I","O","N","S"," ","N","E","W","T","A","X","A"," ","N","T","A","X","=","2"," ","N","C","H","A","R","=","3",";","M","A","T","R","I","X"," ","a"," ","0","1","0",NL,"b"," ","1","0","1",";","E","N","D",";",NL>>

\* the same with the second character eliminated
ActiveEliminated == Header \o <<"B","E","G","I","N"," ","C","H","A","R","A","C","T","E","R","S",";","D","I","M","E","N","S","I","O","N","S"," ","N","E","W","T","A","X","A"," ","N","T","A","X","=","2"," ","N","C","H","A","R","=","3",";","E","L","I","M","I","N","A","T","E"," ","2",";","M","A","T","R","I","X"," ","a"," ","0","1","0",NL,"b"," ","1","0","1",";","E","N","D",";",NL>>

\* a TAXA section of three taxa and a matrix for the first two
ActiveFewerTaxa == Header \o <<"B","E","G","I","N"," ","T","A","X","A",";","D","I","M","E","N","S","I","O","N","S"," ","N","T","A","X","=","3",";","T","A","X","L","A","B","E","L","S"," ","a"," ","b"," ","c",";","E","N","D",";",NL,"B","E","G","I","N"," ","C","H","A","R","A","C","T","E","R","S",";","D","I","M","E","N","S","I","O","N","S"," ","N","T","A","X","=","2"," ","N","C","H","A","R","=","2",";","M","A","T","R","I","X"," ","a"," ","0","1",NL,"b"," ","1","0",";","E","N","D",";",NL>>

\* a section that ends in an error before any matrix is read
ActiveNoMatrix == Header \o <<"B","E","G","I","N"," ","C","H","A","R","A","C","T","E","R","S",";","D","I","M","E","N","S","I","O","N","S"," ","N","E","W","T","A","X","A"," ","N","T","A","X","=","2"," ","N","C","H","A","R","=","3",";","E","L","I","M","I","N","A","T","E"," ","4",";","E","N","D",";",NL>>
ActiveDocs == {ActiveWhole, ActiveEliminated, ActiveFewerTaxa, ActiveNoMatrix}

NoCall == [op |-> "none", arg |-> {}, ret |-> 0]

InitActive ==
    /\ phase = "exec"
    /\ tk \in {NexusToken(d) : d \in ActiveDocs}
    /\ blockList = NULL
    /\ blocks = NewBlocks
    /\ taxa = [h \in {"T1", "T2"} |-> NewTaxa]
    /\ cb = NewCharactersBlock("T1")
    /\ ex = [ExecIdle EXCEPT !.given = NoCall]

\* the host has the control: Execute was not called yet or has returned
HostCalls == phase = "exec" /\ ex.pc \in {"idle", "returned"}

\* what a call of one of the four Apply functions leaves: r is its result
AfterApply(op, arg, r) ==
    /\ cb' = r.cb
    /\ ex' = IF r.assert THEN [ex EXCEPT !.pc = "aborted", !.x = [thrown |-> TRUE, kind |-> "assert"]]
             ELSE [ex EXCEPT !.given = [op |-> op, arg |-> arg, ret |-> r.ret]]
    /\ UNCHANGED <<phase, tk, blockList, blocks, taxa>>

\* what a call of one of the four functions on one index leaves; without the
\* array the write goes through a null pointer
AfterToggle(op, i, alloc, c) ==
    /\ cb' = IF alloc THEN c ELSE cb
    /\ ex' = IF ~alloc THEN [ex EXCEPT !.pc = "aborted", !.x = [thrown |-> TRUE, kind |-> "undefined"]]
             ELSE [ex EXCEPT !.given = [op |-> op, arg |-> {i}, ret |-> 0]]
    /\ UNCHANGED <<phase, tk, blockList, blocks, taxa>>

HostApplyDelset ==
    /\ HostCalls
    /\ \E s \in SUBSET (0..(cb.ntaxTotal - 1)) : AfterApply("ApplyDelset", s, ApplyDelset(cb, s))

HostApplyExset ==
    /\ HostCalls
    /\ \E s \in SUBSET (0..(cb.ncharTotal - 1)) : AfterApply("ApplyExset", s, ApplyExset(cb, s))

HostApplyIncludeset ==
    /\ HostCalls
    /\ \E s \in SUBSET (0..(cb.ncharTotal - 1)) : AfterApply("ApplyIncludeset", s, ApplyIncludeset(cb, s))

HostApplyRestoreset ==
    /\ HostCalls
    /\ \E s \in SUBSET (0..(cb.ntaxTotal - 1)) : AfterApply("ApplyRestoreset", s, ApplyRestoreset(cb, s))

HostDeleteTaxon ==
    /\ HostCalls
    /\ \E i \in 0..(cb.ntax - 1) :
          AfterToggle("DeleteTaxon", i, cb.activeTaxon.alloc, DeleteTaxon(cb, i))

HostExcludeCharacter ==
    /\ HostCalls
    /\ \E i \in 0..(cb.nchar - 1) :
          AfterToggle("ExcludeCharacter", i, cb.activeChar.alloc, ExcludeCharacter(cb, i))

HostIncludeCharacter ==
    /\ HostCalls
    /\ \E i \in 0..(cb.nchar - 1) :
          AfterToggle("IncludeCharacter", i, cb.activeChar.alloc, IncludeCharacter(cb, i))

HostRestoreTaxon ==
    /\ HostCalls
    /\ \E i \in 0..(cb.ntax - 1) :
          AfterToggle("RestoreTaxon", i, cb.activeTaxon.alloc, RestoreTaxon(cb, i))

NextActive ==
    \/ Add("T1")
    \/ Add("C")
    \/ Execute
    \/ ExecuteLoop
    \/ ExecuteRead
    \/ ExecuteSkip
    \/ HostApplyDelset
    \/ HostApplyExset
    \/ HostApplyIncludeset
    \/ HostApplyRestoreset
    \/ HostDeleteTaxon
    \/ HostExcludeCharacter
    \/ HostIncludeCharacter
    \/ HostRestoreTaxon

SpecActive == InitActive /\ [][NextActive]_vars

\* one of the four Apply functions has returned in this step
ApplyReturns ==
    /\ HostApplyDelset \/ HostApplyExset \/ HostApplyIncludeset \/ HostApplyRestoreset
    /\ ex'.pc # "aborted"

\* the flags of the two arrays that differ before and after the step
ChangedFlags ==
    {<<"char", k>> : k \in {j \in 1..Len(cb.activeChar.a) : cb'.activeChar.a[j] # cb.activeChar.a[j]}}
    \cup {<<"taxon", k>> : k \in {j \in 1..Len(cb.activeTaxon.a) : cb'.activeTaxon.a[j] # cb.activeTaxon.a[j]}}

\* before the step, every entry the set of the call stands for was already
\* what the call makes it
AlreadyApplied ==
    LET call == ex'.given
        onTaxa == call.op \in {"ApplyDelset", "ApplyRestoreset"}
        pos == IF onTaxa THEN cb.taxonPos.a ELSE cb.charPos.a
        active == IF onTaxa THEN cb.activeTaxon.a ELSE cb.activeChar.a
        value == call.op \in {"ApplyIncludeset", "ApplyRestoreset"}
    IN  \A i \in call.arg : pos[i + 1] >= 0 => active[pos[i + 1] + 1] = value

\* C19: the value an Apply function returns is the number of flags that
\* differ after the call; when every entry of the set was already excluded
\* (included, deleted, restored) it returns 0 and both arrays are as before.
C19_ChangedCount ==
    [][ApplyReturns =>
          /\ ex'.given.ret = Cardinality(ChangedFlags)
          /\ AlreadyApplied =>
                /\ ex'.given.ret = 0
                /\ cb'.activeChar = cb.activeChar
                /\ cb'.activeTaxon = cb.activeTaxon]_vars

\* ApplyExset on characters of which one was excluded before: one is counted
C19_Witness ==
    /\ ex.pc = "returned"
    /\ ex.given = [op |-> "ApplyExset", arg |-> {0, 1, 2}, ret |-> 1]
    /\ cb.charPos.a = <<0, -1, 1>>
    /\ cb.activeChar.a = <<FALSE, FALSE>>

\* one of the eight functions has returned in this step
ToggleReturns ==
    /\ \/ ApplyReturns
       \/ HostDeleteTaxon \/ HostExcludeCharacter \/ HostIncludeCharacter \/ HostRestoreTaxon
    /\ ex'.pc # "aborted"

\* C20: a call of one of the eight functions leaves charPos, taxonPos, the
\* numbers of taxa and characters and the matrix as they were; the block
\* differs in activeChar and activeTaxon at most.
C20_OnlyActiveFlagsChange ==
    [][ToggleReturns =>
          /\ cb'.charPos = cb.charPos /\ cb'.taxonPos = cb.taxonPos
          /\ cb'.ntax = cb.ntax /\ cb'.nchar = cb.nchar
          /\ cb'.ntaxTotal = cb.ntaxTotal /\ cb'.ncharTotal = cb.ncharTotal
          /\ cb'.matrix = cb.matrix
          /\ [cb' EXCEPT !.activeChar = cb.activeChar, !.activeTaxon = cb.activeTaxon] = cb
          /\ taxa' = taxa]_vars

\* a character excluded and a taxon deleted, the matrix read before
C20_Witness ==
    /\ ex.pc = "returned"
    /\ ex.given.op = "DeleteTaxon"
    /\ cb.matrix.alloc
    /\ \E j \in 1..Len(cb.activeChar.a) : ~cb.activeChar.a[j]
    /\ \E j \in 1..Len(cb.activeTaxon.a) : ~cb.activeTaxon.a[j]

\* ------------------------------------------------------------------------
\* SpecCell: the cells of a matrix under the calls of DiscreteMatrix and the
\* cell queries of CharactersBlock
\* ------------------------------------------------------------------------
MaxStates == 3

\* the states the host hands to SetState and AddState
CellValues == {0, 1}

\* the block after FORMAT SYMBOLS="012" GAP=- MATCHCHAR=. and the allocation
\* of a matrix of two taxa and one character by HandleMatrix
CellBlock ==
    [NewCharactersBlock("T1") EXCEPT !.symbols = <<"0", "1", "2">>, !.gap = "-", !.matchchar = ".",
                                     !.ntax = 2, !.ntaxTotal = 2, !.nchar = 1, !.ncharTotal = 1,
                                     !.matrix = DiscreteMatrix(2, 1)]

NoCellCall == [op |-> "none", i |-> 0, j |-> 0, arg |-> 0, ret |-> 0]

InitCell ==
    /\ phase = "cell"
    /\ tk = NexusToken(<<>>)
    /\ blockList = NULL
    /\ blocks = NewBlocks
    /\ taxa = [h \in {"T1", "T2"} |-> NewTaxa]
    /\ cb = CellBlock
    /\ ex = [pc |-> "idle", given |-> NoCellCall, x |-> NoX, cells |-> 0]

CellCalls == phase = "cell" /\ ex.pc = "idle"

CellRowIndices == 0..(cb.matrix.nrows - 1)
CellColIndices == 0..(cb.matrix.ncols - 1)

\* the locals of the host after a call that changes a cell; m is the machine
\* after the call
CellOutcome(e, op, i, j, arg, m) ==
    IF m.tk.hung THEN [e EXCEPT !.pc = "hung"]
    ELSE IF m.tk.x.thrown
         THEN [e EXCEPT !.pc = IF m.tk.x.kind = "XNexus" THEN "raised"
                               ELSE IF m.tk.x.kind = "assert" THEN "aborted"
                               ELSE "undefined",
                        !.x = m.tk.x]
    ELSE [e EXCEPT !.given = [op |-> op, i |-> i, j |-> j, arg |-> arg, ret |-> 0]]

\* what a call that changes a cell leaves
AfterCellCall(op, i, j, arg, m) ==
    /\ cb' = m.cb
    /\ blocks' = m.blocks
    /\ tk' = [m.tk EXCEPT !.x = NoX]
    /\ ex' = CellOutcome(ex, op, i, j, arg, m)
    /\ UNCHANGED <<phase, blockList, taxa>>

\* what a query of a cell leaves; r is its result
AfterCellQuery(op, i, j, k, r) ==
    /\ ex' = IF r.assert THEN [ex EXCEPT !.pc = "aborted", !.x = [thrown |-> TRUE, kind |-> "assert"]]
             ELSE [ex EXCEPT !.given = [op |-> op, i |-> i, j |-> j, arg |-> k, ret |-> r.ret]]
    /\ UNCHANGED <<phase, tk, blockList, blocks, taxa, cb>>

\* matrix->SetState( i, j, value )
CellSetState ==
    /\ CellCalls
    /\ \E i \in CellRowIndices, j \in CellColIndices, value \in CellValues :
          AfterCellCall("SetState", i, j, value, MatrixCall(Machine, i, j, "SetState", value))

\* matrix->AddState( i, j, value ); the model stops at MaxStates states
CellAddState ==
    /\ CellCalls
    /\ \E i \in CellRowIndices, j \in CellColIndices, value \in CellValues :
          /\ DatumGetNumStates(MatrixCell(cb.matrix, i, j)) < MaxStates
          /\ AfterCellCall("AddState", i, j, value, MatrixCall(Machine, i, j, "AddState", value))

\* matrix->SetMissing( i, j )
CellSetMissing ==
    /\ CellCalls
    /\ \E i \in CellRowIndices, j \in CellColIndices :
          AfterCellCall("SetMissing", i, j, 0, MatrixCall(Machine, i, j, "SetMissing", 0))

\* matrix->SetGap( i, j )
CellSetGap ==
    /\ CellCalls
    /\ \E i \in CellRowIndices, j \in CellColIndices :
          AfterCellCall("SetGap", i, j, 0, MatrixCall(Machine, i, j, "SetGap", 0))

\* matrix->SetPolymorphic( i, j, value )
CellSetPolymorphic ==
    /\ CellCalls
    /\ \E i \in CellRowIndices, j \in CellColIndices, value \in {0, 1} :
          AfterCellCall("SetPolymorphic", i, j, value, MatrixCall(Machine, i, j, "SetPolymorphic", value))

\* matrix->CopyStatesFromFirstTaxon( i, j )
CellCopyStatesFromFirstTaxon ==
    /\ CellCalls
    /\ \E i \in CellRowIndices, j \in CellColIndices :
          AfterCellCall("CopyStatesFromFirstTaxon", i, j, 0, CopyStatesFromFirstTaxon(Machine, i, j))

\* the queries GetState, GetInternalRepresentation, GetNumStates, IsPolymorphic
CellGetState ==
    /\ CellCalls
    /\ \E i \in CellRowIndices, j \in CellColIndices, k \in 0..(MaxStates - 1) :
          AfterCellQuery("GetState", i, j, k, GetState(cb, i, j, k))

CellGetInternalRepresentation ==
    /\ CellCalls
    /\ \E i \in CellRowIndices, j \in CellColIndices, k \in 0..(MaxStates - 1) :
          AfterCellQuery("GetInternalRepresentation", i, j, k, GetInternalRepresentation(cb, i, j, k))

CellGetNumStates ==
    /\ CellCalls
    /\ \E i \in CellRowIndices, j \in CellColIndices :
          AfterCellQuery("GetNumStates", i, j, 0, GetNumStates(cb, i, j))

CellIsPolymorphic ==
    /\ CellCalls
    /\ \E i \in CellRowIndices, j \in CellColIndices :
          AfterCellQuery("IsPolymorphic", i, j, 0, IsPolymorphic(cb, i, j))

NextCell ==
    \/ CellSetState
    \/ CellAddState
    \/ CellSetMissing
    \/ CellSetGap
    \/ CellSetPolymorphic
    \/ CellCopyStatesFromFirstTaxon
    \/ CellGetNumStates
    \/ CellIsPolymorphic

SpecCell == InitCell /\ [][NextCell]_vars

\* the cell the last call was about
CalledCell == MatrixCell(cb.matrix, ex.given.i, ex.given.j)

\* the encodings of a cell
IsSingle(d) == d # NullStates /\ d[1] = 1
IsMulti(d) == d # NullStates /\ d[1] >= 2

\* the states a cell holds, in the order of the array
StatesOf(d) == IF d = NullStates THEN <<>> ELSE SubSeq(d, 2, d[1] + 1)

\* AddState has returned in this step
AddStateReturns == CellAddState /\ ex'.pc = "idle"

\* C23: AddState on a cell with one state leaves a cell with two states, the
\* one it had and the new one, in that order, that is not polymorphic;
\* AddState on a cell with several states leaves the states it had, in
\* their order, followed by the new one.
C23_AddStateKeepsStates ==
    [][AddStateReturns =>
          LET d == MatrixCell(cb.matrix, ex'.given.i, ex'.given.j)
              after == MatrixCell(cb'.matrix, ex'.given.i, ex'.given.j)
          IN  /\ IsSingle(d) =>
                    /\ IsMulti(after)
                    /\ StatesOf(after) = <<d[2], ex'.given.arg>>
                    /\ DatumIsPolymorphic(after) = 0
              /\ IsMulti(d) => StatesOf(after) = Append(StatesOf(d), ex'.given.arg)]_vars

\* AddState has made a cell of three states out of one of two
C23_Witness ==
    /\ ex.pc = "idle"
    /\ ex.given.op = "AddState" /\ ex.given.i = 1 /\ ex.given.arg = 0
    /\ MatrixCell(cb.matrix, 1, 0) = <<3, 0, 1, 0, 0>>

\* the array of the cell has the place of the polymorphism flag
EncodedMulti(d) == Len(d) > 2

\* C25: every cell whose array has the polymorphism flag holds at least two
\* states, as many as its first element says, and IsPolymorphic returns 0
\* for every cell with fewer than two states.
C25_MultiHasTwoStates ==
    /\ \A i \in CellRowIndices, j \in CellColIndices :
          LET d == MatrixCell(cb.matrix, i, j)
          IN  /\ EncodedMulti(d) => d[1] >= 2 /\ Len(d) = d[1] + 2 /\ d[Len(d)] \in {0, 1}
              /\ ~EncodedMulti(d) => d \in {NullStates, <<0>>} \/ (Len(d) = 2 /\ d[1] = 1)
              /\ DatumGetNumStates(d) < 2 => IsPolymorphic(cb, i, j) = [ret |-> 0, assert |-> FALSE]
    /\ (ex.pc = "idle" /\ ex.given.op = "IsPolymorphic" /\ ex.given.ret # 0) =>
          DatumGetNumStates(CalledCell) >= 2

\* IsPolymorphic has returned 1 for a cell of two states made polymorphic,
\* next to a cell that was copied from the first taxon and given a state more
C25_Witness ==
    /\ ex.pc = "idle"
    /\ ex.given.op = "IsPolymorphic" /\ ex.given.i = 0 /\ ex.given.ret = 1
    /\ MatrixCell(cb.matrix, 0, 0) = <<2, 0, 1, 1>>
    /\ MatrixCell(cb.matrix, 1, 0) = <<3, 0, 1, 1, 0>>

\* ------------------------------------------------------------------------
\* SpecRead: HandleNextState on the cells of a new matrix, one after the
\* other as HandleStdMatrix calls it, and the cell queries of the host
\* ------------------------------------------------------------------------
\* groups with a range first~last of positions in symbols
CellRanges ==
    { [text |-> <<"{", "0", "~", "2", "}">>, token |-> <<"{", "0", "~", "2", "}">>, first |-> 0, last |-> 2],
      [text |-> <<"{", "0", "~", "1", "}">>, token |-> <<"{", "0", "~", "1", "}">>, first |-> 0, last |-> 1],
      [text |-> <<"{", "1", "~", "2", "}">>, token |-> <<"{", "1", "~", "2", "}">>, first |-> 1, last |-> 2],
      [text |-> <<"(", "0", "~", "2", ")", ";">>, token |-> <<"(", "0", "~", "2", ")">>, first |-> 0, last |-> 2] }

\* what HandleNextState finds in the stream for one cell
CellTexts ==
    { <<"0">>, <<"1">>, <<"2">>, <<"?">>, <<"-">>, <<".">>, <<"{", "0", "1", "}">>,
      <<"(", "1", "0", ")", ";">> }
    \cup { r.text : r \in CellRanges }


\* the streams that hold the two cells of the matrix
ReadStreams == { a \o <<" ">> \o b : a \in CellTexts, b \in CellTexts }

InitRead ==
    /\ phase = "cell"
    /\ tk \in { NexusToken(t) : t \in ReadStreams }
    /\ blockList = NULL
    /\ blocks = NewBlocks
    /\ taxa = [h \in {"T1", "T2"} |-> NewTaxa]
    /\ cb = CellBlock
    /\ ex = [pc |-> "idle", given |-> NoCellCall, x |-> NoX, cells |-> 0]

\* HandleNextState( token, i, 0 ) for the next cell of the matrix, i the
\* number of cells read before; arg is the token it read
ReadHandleNextState ==
    /\ CellCalls
    /\ ex.cells < cb.matrix.nrows
    /\ \E m \in {HandleNextState(Machine, "C", ex.cells, 0)} :
          /\ cb' = m.cb
          /\ blocks' = m.blocks
          /\ tk' = [m.tk EXCEPT !.x = NoX]
          /\ ex' = CellOutcome([ex EXCEPT !.cells = @ + 1], "HandleNextState", ex.cells, 0, m.tk.token, m)
    /\ UNCHANGED <<phase, blockList, taxa>>

NextRead ==
    \/ ReadHandleNextState
    \/ CellGetState
    \/ CellGetInternalRepresentation
    \/ CellGetNumStates
    \/ CellIsPolymorphic

SpecRead == InitRead /\ [][NextRead]_vars

\* C21: for every position k in symbols, GetState on a cell that holds the
\* one state k returns symbols[k] and GetInternalRepresentation returns k; no
\* query of a missing cell or of a gap cell returns a state code of 0 or more
\* (GetState fails its assertion, GetInternalRepresentation returns -2 or -3),
\* and a symbol read by HandleNextState into a new cell is the symbol GetState
\* shows for it.
C21_SingleRoundTrip ==
    /\ \A i \in CellRowIndices, j \in CellColIndices, k \in 0..(MaxStates - 1) :
          LET d == MatrixCell(cb.matrix, i, j)
          IN  /\ (IsSingle(d) /\ d[2] < Len(cb.symbols)) =>
                    /\ GetState(cb, i, j, 0) = [ret |-> cb.symbols[d[2] + 1], assert |-> FALSE]
                    /\ GetInternalRepresentation(cb, i, j, 0) = [ret |-> d[2], assert |-> FALSE]
              /\ (d = NullStates \/ d = <<0>>) =>
                    /\ GetState(cb, i, j, k).assert
                    /\ MatrixGetState(cb.matrix, i, j, k).assert
                    /\ ~GetInternalRepresentation(cb, i, j, k).assert
                    /\ GetInternalRepresentation(cb, i, j, k).ret < 0
    /\ (ex.given.op \in {"GetState", "GetInternalRepresentation"} /\ ex.pc = "idle") =>
          /\ (CalledCell = NullStates \/ CalledCell = <<0>>) =>
                ex.given.op = "GetInternalRepresentation" /\ ex.given.ret < 0
          /\ IsSingle(CalledCell) =>
                ex.given.ret = IF ex.given.op = "GetState" THEN cb.symbols[CalledCell[2] + 1]
                               ELSE CalledCell[2]
    /\ (ex.given.op = "HandleNextState" /\ ex.pc = "idle" /\ Len(ex.given.arg) = 1
          /\ ex.given.arg[1] \in {"0", "1", "2"}) =>
          GetState(cb, ex.given.i, ex.given.j, 0) = [ret |-> ex.given.arg[1], assert |-> FALSE]

\* GetState has returned the symbol of a cell with one state
C21_Witness ==
    /\ ex.pc = "idle"
    /\ ex.given.op = "GetState" /\ ex.given.i = 1 /\ ex.given.ret = "1"
    /\ MatrixCell(cb.matrix, 1, 0) = <<1, 1>>
    /\ MatrixCell(cb.matrix, 0, 0) = <<0>>

\* C22: after HandleNextState has read a group with the range first~last,
\* the cell holds every state from first through last, in the order of symbols.
C22_RangeExpanded ==
    \A r \in CellRanges :
        (ex.pc = "idle" /\ ex.given.op = "HandleNextState" /\ ex.given.arg = r.token) =>
            StatesOf(CalledCell) = [n \in 1..(r.last - r.first + 1) |-> r.first + n - 1]

\* ------------------------------------------------------------------------
\* SpecRows: DuplicateRow and AddRows on a matrix of two columns
\* ------------------------------------------------------------------------
MaxRows == 3

\* the cells a matrix starts with
RowCells == {NullStates, <<1, 0>>, <<2, 0, 1, 1>>}

\* matrices of one or two rows and two columns
RowMatrices ==
    UNION { { [DiscreteMatrix(n, 2) EXCEPT !.data = d] : d \in [1..n -> [1..2 -> RowCells]] } : n \in 1..2 }

NoRowCall == [op |-> "none", row |-> 0, count |-> 0, startCol |-> 0, endCol |-> 0, ret |-> 0]

InitRows ==
    /\ phase = "rows"
    /\ tk = NexusToken(<<>>)
    /\ blockList = NULL
    /\ blocks = NewBlocks
    /\ taxa = [h \in {"T1", "T2"} |-> NewTaxa]
    /\ \E mx \in RowMatrices : cb = [NewCharactersBlock("T1") EXCEPT !.matrix = mx]
    /\ ex = [pc |-> "idle", given |-> NoRowCall, x |-> NoX]

RowCalls == phase = "rows" /\ ex.pc = "idle"

\* matrix->DuplicateRow( row, count, startCol, endCol ); the model stops at
\* MaxRows rows
RowsDuplicateRow ==
    /\ RowCalls
    /\ \E row \in 0..(cb.matrix.nrows - 1), count \in 1..MaxRows,
          startCol \in 0..(cb.matrix.ncols - 1), endCol \in -1..(cb.matrix.ncols - 1) :
          /\ row + count <= MaxRows
          /\ \E r \in {DuplicateRow(cb.matrix, row, count, startCol, endCol)} :
                /\ cb' = [cb EXCEPT !.matrix = r.mx]
                /\ ex' = [ex EXCEPT !.pc = IF r.assert THEN "aborted" ELSE "idle",
                                    !.x = IF r.assert THEN [thrown |-> TRUE, kind |-> "assert"] ELSE NoX,
                                    !.given = [op |-> "DuplicateRow", row |-> row, count |-> count,
                                               startCol |-> startCol, endCol |-> endCol, ret |-> r.ret]]
    /\ UNCHANGED <<phase, tk, blockList, blocks, taxa>>

\* matrix->AddRows( 1 )
RowsAddRows ==
    /\ RowCalls
    /\ cb.matrix.nrows < MaxRows
    /\ cb' = [cb EXCEPT !.matrix = AddRows(@, 1)]
    /\ ex' = [ex EXCEPT !.given = [NoRowCall EXCEPT !.op = "AddRows", !.count = 1]]
    /\ UNCHANGED <<phase, tk, blockList, blocks, taxa>>

NextRows == RowsDuplicateRow \/ RowsAddRows

SpecRows == InitRows /\ [][NextRows]_vars

\* C24: DuplicateRow( row, count, startCol, endCol ) with
\* 0 <= startCol <= endCol < ncols returns; afterwards the cells
\* startCol..endCol of the count-1 rows after row are the cells of row, the
\* matrix has row+count rows if it had fewer, the value returned is the number
\* of rows added, and every other cell there was is as before.
C24_DuplicateRowCopiesSpan ==
    [][(RowsDuplicateRow /\ ex'.given.startCol <= ex'.given.endCol) =>
          LET g == ex'.given
              old == cb.matrix
              new == cb'.matrix
          IN  /\ ex'.pc = "idle"
              /\ new.ncols = old.ncols
              /\ new.nrows = IF g.row + g.count > old.nrows THEN g.row + g.count ELSE old.nrows
              /\ g.ret = new.nrows - old.nrows
              /\ \A i \in 0..(new.nrows - 1), j \in 0..(new.ncols - 1) :
                    IF i > g.row /\ i < g.row + g.count /\ j >= g.startCol /\ j <= g.endCol
                    THEN MatrixCell(new, i, j) = MatrixCell(old, g.row, j)
                    ELSE i < old.nrows => MatrixCell(new, i, j) = MatrixCell(old, i, j)]_vars

\* the same for the spans of more than one column, startCol < endCol
WiderSpanCopied ==
    [][(RowsDuplicateRow /\ ex'.given.startCol < ex'.given.endCol) =>
          LET g == ex'.given
              old == cb.matrix
              new == cb'.matrix
          IN  /\ ex'.pc = "idle"
              /\ new.nrows = IF g.row + g.count > old.nrows THEN g.row + g.count ELSE old.nrows
              /\ g.ret = new.nrows - old.nrows
              /\ \A i \in 0..(new.nrows - 1), j \in 0..(new.ncols - 1) :
                    IF i > g.row /\ i < g.row + g.count /\ j >= g.startCol /\ j <= g.endCol
                    THEN MatrixCell(new, i, j) = MatrixCell(old, g.row, j)
                    ELSE i < old.nrows => MatrixCell(new, i, j) = MatrixCell(old, i, j)]_vars

\* ------------------------------------------------------------------------
\* SpecRegistry: the host adds, detaches, disables and enables handlers
\* ------------------------------------------------------------------------
InitRegistry ==
    /\ phase = "exec"
    /\ tk = NexusToken(<<>>)
    /\ blockList = NULL
    /\ blocks = NewBlocks
    /\ taxa = [h \in {"T1", "T2"} |-> NewTaxa]
    /\ cb = NewCharactersBlock("T1")
    /\ ex = [ExecIdle EXCEPT !.given = NoCall]

NextRegistry ==
    \/ \E h \in Handlers : Add(h)
    \/ \E h \in Handlers : Detach(h)
    \/ \E h \in Handlers : Disable(h)
    \/ \E h \in Handlers : Enable(h)

SpecRegistry == InitRegistry /\ [][NextRegistry]_vars

\* the registry: the handlers Execute would meet from blockList on
InRegistry == Walk(blocks, blockList, {})

\* the sequence s without h
RECURSIVE Without(_, _)
Without(s, h) ==
    IF s = <<>> THEN <<>>
    ELSE IF Head(s) = h THEN Without(Tail(s), h)
    ELSE <<Head(s)>> \o Without(Tail(s), h)

\* C26: Detach( h ) on a registry that holds h returns and leaves the other
\* handlers of the registry in the registry, in the order they had; h is not
\* in it any more and keeps its class, id, enabled flag and contents.
C26_DetachOnlyUnregisters ==
    [][\A h \in Handlers :
          (Detach(h) /\ \E k \in 1..Len(InRegistry) : InRegistry[k] = h) =>
              /\ ex'.pc = "idle"
              /\ Walk(blocks', blockList', {}) = Without(InRegistry, h)
              /\ [blocks'[h] EXCEPT !.next = blocks[h].next, !.nexus = blocks[h].nexus] = blocks[h]
              /\ taxa' = taxa /\ cb' = cb]_vars

\* C27: Detach( h ) on a registry that does not hold h, the empty registry
\* included, returns and leaves the registry and every handler as they were.
C27_DetachAbsentIsQuiet ==
    [][\A h \in Handlers :
          (Detach(h) /\ \A k \in 1..Len(InRegistry) : InRegistry[k] # h) =>
              /\ ex'.pc = "idle"
              /\ blockList' = blockList
              /\ blocks' = blocks
              /\ taxa' = taxa /\ cb' = cb]_vars

\* ------------------------------------------------------------------------
\* SpecSkip: CHARACTERS sections with commands that Read does not know
\* ------------------------------------------------------------------------

\* commands of a CHARACTERS section; known says whether Read has a branch
\* for the command
SkipCommands ==
    <<
       [text |-> <<"E","L","I","M","I","N","A","T","E"," ","2",";">>, known |-> TRUE],
       [text |-> <<"C","H","A","R","L","A","B","E","L","S"," ","x"," ","y"," ","z",";">>, known |-> TRUE],
       [text |-> <<"M","A","T","R","I","X"," ","a"," ","0","1","0",";">>, known |-> TRUE],
       [text |-> <<"F","O","O",";">>, known |-> FALSE],
       [text |-> <<"O","P","T","I","O","N","S"," ","x","=","1"," ","[","c","]"," ","y",";">>, known |-> FALSE],
       [text |-> <<";">>, known |-> FALSE]
    >>

\* the sequences of at most n commands, as indices into SkipCommands
RECURSIVE CommandLists(_)
CommandLists(n) ==
    IF n = 0 THEN {<<>>}
    ELSE LET shorter == CommandLists(n - 1)
         IN  shorter \cup {Append(l, k) : l \in shorter, k \in 1..Len(SkipCommands)}

RECURSIVE CommandsText(_, _)
CommandsText(l, i) ==
    IF i > Len(l) THEN <<>> ELSE SkipCommands[l[i]].text \o CommandsText(l, i + 1)

SkipDoc(l) == Header \o CharOpening \o CommandsText(l, 1) \o <<"E","N","D",";",NL>>

InitSkip ==
    /\ phase = "exec"
    /\ \E l \in CommandLists(MaxCommands) :
          /\ tk = NexusToken(SkipDoc(l))
          /\ ex = [ExecIdle EXCEPT !.given = l]
    /\ blockList = NULL
    /\ blocks = NewBlocks
    /\ taxa = [h \in {"T1", "T2"} |-> NewTaxa]
    /\ cb = NewCharactersBlock("T1")

SpecSkip == InitSkip /\ [][NextChar]_vars

\* the commands of l that Read knows, in their order
RECURSIVE KnownOnly(_)
KnownOnly(l) ==
    IF l = <<>> THEN <<>>
    ELSE IF SkipCommands[Head(l)].known THEN <<Head(l)>> \o KnownOnly(Tail(l))
    ELSE KnownOnly(Tail(l))

\* Execute of the document without the commands Read does not know, with the
\* registry as it is and the handlers as constructed
RunWithout(l) ==
    RunExecute([Machine EXCEPT !.tk = NexusToken(SkipDoc(KnownOnly(l))),
                               !.taxa = [h \in {"T1", "T2"} |-> NewTaxa],
                               !.cb = NewCharactersBlock("T1")],
               ExecIdle)

\* the messages Execute has handed to NexusError
RECURSIVE ReportedFrom(_, _)
ReportedFrom(log, i) ==
    IF i > Len(log) THEN <<>>
    ELSE IF log[i].e = "NexusError" THEN <<log[i].a.msg>> \o ReportedFrom(log, i + 1)
    ELSE ReportedFrom(log, i + 1)

Reported(e) == ReportedFrom(e.log, 1)

\* the run has ended as the run of the document without the unknown
\* commands ends: the same way out of Execute, the same errors, the same
\* contents of the CharactersBlock and of the taxa
AsIfAbsent ==
    LET w == RunWithout(ex.given)
    IN  /\ ex.pc = w[2].pc
        /\ Reported(ex) = Reported(w[2])
        /\ cb = w[1].cb
        /\ taxa = w[1].taxa

\* C28: a command of a CHARACTERS section that Read does not know is passed
\* over up to its semicolon: Execute ends as it ends for the document without
\* such commands, with the same block contents, and reports no error that
\* the document without them does not give.
C28_UnknownCommandSkipped ==
    (Ended(ex) /\ TookSection) => AsIfAbsent

\* the same for the unknown commands that begin with a word
NamedCommandSkipped ==
    (Ended(ex) /\ TookSection /\ \A k \in 1..Len(ex.given) : ex.given[k] # 6) => AsIfAbsent

\* ------------------------------------------------------------------------
\* A TAXA section that registers the taxon labels, then a CHARACTERS section
\* without NEWTAXA whose matrix rows carry labels: the rows are checked
\* against the labels the TaxaBlock holds.  ex.given is what the document is
\* written from: reg the number of labels registered, first the labels of
\* the rows of the first page, later those of the second page (<<>> when the
\* matrix is written as one page without FORMAT INTERLEAVE).
\* ------------------------------------------------------------------------
MaxReg == 3

RegLabels == <<<<"a">>, <<"b">>, <<"c">>, <<"d">>, <<"e">>>>

\* rows i and i + 1 of s exchanged
SwapRows(s, i) == [k \in DOMAIN s |-> IF k = i THEN s[i + 1] ELSE IF k = i + 1 THEN s[i] ELSE s[k]]

OrderGivens ==
    UNION {{[reg |-> n, first |-> f, later |-> l] :
               l \in {<<>>, f} \cup {SwapRows(f, i) : i \in 1..(n - 1)}}
           : <<n, f>> \in UNION {{<<n, f>> : f \in [1..n -> 1..n]} : n \in 2..MaxReg}}

RECURSIVE LabelsText(_, _)
LabelsText(n, i) == IF i > n THEN <<>> ELSE <<" ">> \o RegLabels[i] \o LabelsText(n, i + 1)

\* the rows i.. of a page: the label, then cells, the states of the row
RECURSIVE OrderRowsText(_, _, _)
OrderRowsText(rows, cells, i) ==
    IF i > Len(rows) THEN <<>>
    ELSE RegLabels[rows[i]] \o <<" ">> \o cells \o <<NL>> \o OrderRowsText(rows, cells, i + 1)

OrderDoc(g) ==
    Header \o <<"B","E","G","I","N"," ","T","A","X","A",";","D","I","M","E","N","S","I","O","N","S"," ","N","T","A","X","=">> \o <<Digits[g.reg + 1]>>
           \o <<";","T","A","X","L","A","B","E","L","S">> \o LabelsText(g.reg, 1) \o <<";","E","N","D",";",NL>>
           \o <<"B","E","G","I","N"," ","C","H","A","R","A","C","T","E","R","S",";","D","I","M","E","N","S","I","O","N","S"," ","N","C","H","A","R","=","2",";">>
           \o (IF g.later = <<>> THEN <<>> ELSE <<"F","O","R","M","A","T"," ","I","N","T","E","R","L","E","A","V","E",";">>)
           \o <<"M","A","T","R","I","X",NL>>
           \o (IF g.later = <<>> THEN OrderRowsText(g.first, <<"0", "1">>, 1)
               ELSE OrderRowsText(g.first, <<"0">>, 1) \o OrderRowsText(g.later, <<"1">>, 1))
           \o <<";","E","N","D",";",NL>>

InitOrder ==
    /\ phase = "exec"
    /\ \E g \in OrderGivens :
          /\ tk = NexusToken(OrderDoc(g))
          /\ ex = [ExecIdle EXCEPT !.given = g]
    /\ blockList = NULL
    /\ blocks = NewBlocks
    /\ taxa = [h \in {"T1", "T2"} |-> NewTaxa]
    /\ cb = NewCharactersBlock("T1")

\* the host registers the TaxaBlock and the CharactersBlock that uses it
NextOrder ==
    \/ Add("T1")
    \/ Add("C")
    \/ Execute
    \/ ExecuteLoop
    \/ ExecuteRead
    \/ ExecuteSkip

SpecOrder == InitOrder /\ [][NextOrder]_vars

\* the labels the TaxaBlock holds are those the document registers
LabelsRegistered(g) == taxa["T1"].taxonLabels = [k \in 1..g.reg |-> RegLabels[k]]

\* the CharactersBlock has read the section to its end or to an error
CharactersRead ==
    /\ Ended(ex)
    /\ LabelsRegistered(ex.given)
    /\ \E k \in LogIdx : IsEv(k, "Read") /\ ex.log[k].a = "C"

\* the first row of s that differs from the row of t, 0 when there is none
FirstOther(s, t) ==
    IF \A i \in DOMAIN s : s[i] = t[i] THEN 0
    ELSE CHOOSE i \in DOMAIN s : s[i] # t[i] /\ \A k \in 1..(i - 1) : s[k] = t[k]

InOrder(g) == [k \in 1..g.reg |-> k]

\* the CharactersBlock raised an XNexus with this message
RaisedByCharacters(msg) ==
    \E k \in LogIdx : /\ IsEv(k, "Raised")
                      /\ ex.log[k].a.h = "C"
                      /\ ex.log[k].a.x.msg = msg

TaxonOrderingError == "Relative order of taxa must be the same in both the TAXA and CHARACTERS blocks"
PageOrderingError == "Ordering of taxa must be identical to that in first interleave page"
DuplicateTaxonError == "Data for this taxon has already been saved"

\* what HandleStdMatrix makes of the labels, as the claims below have it:
\* other(i) is the error that a first page raises whose row i is the first
\* to bear another label than the one registered at i
LabelsOutcome(g, other(_)) ==
    LET i == FirstOther(g.first, InOrder(g))
        j == FirstOther(g.later, g.first)
    IN  IF i # 0 THEN RaisedByCharacters(other(i))
        ELSE IF j # 0 THEN RaisedByCharacters(PageOrderingError)
        ELSE /\ Normal(ex)
             /\ cb.taxonPos.a = [k \in 1..g.reg |-> k - 1]

AlwaysTaxonOrdering(i) == TaxonOrderingError

\* the label of row i is registered before i (its row was read already) or
\* after i
DuplicateOrTaxonOrdering(i) ==
    IF ex.given.first[i] < i THEN DuplicateTaxonError ELSE TaxonOrderingError

ReportAfter(k) == ex.log[k + 1]

\* the position handed to NexusError is the position the XNexus carries
PositionCarried ==
    \A k \in LogIdx :
        IsEv(k, "Raised")
        => /\ k + 1 \in LogIdx
           /\ IsEv(k + 1, "NexusError")
           /\ ReportAfter(k).a.pos = ex.log[k].a.x.pos
           /\ ReportAfter(k).a.line = ex.log[k].a.x.line
           /\ ReportAfter(k).a.col = ex.log[k].a.x.col

\* C30: when Execute reports an XNexus raised during a handler's Read, the
\* message and the position handed to NexusError are those the XNexus
\* carries, whichever component raised it.
C30_ReportCarriesRaised ==
    /\ PositionCarried
    /\ \A k \in LogIdx :
          IsEv(k, "Raised") => ReportAfter(k).a.msg = ex.log[k].a.x.msg

\* ------------------------------------------------------------------------
\* Termination of a pull, in the behaviours of SpecTok and SpecLex
\* ------------------------------------------------------------------------
\* C31: on a finite document and under any combination of labile flags a
\* call of GetNextToken returns or throws after finitely many characters;
\* it never goes on reading once the stream is exhausted.
C31_PullEnds == phase = "pulled" => ~tk.hung

\* ------------------------------------------------------------------------
\* The shape of the registry, in the behaviours of SpecRegistry: Add( h ) is
\* called only for a handler that is not registered (its nexus is NULL)
\* ------------------------------------------------------------------------
\* the handlers that were added and not detached since
HeldRegistered == {h \in Handlers : blocks[h].nexus = THIS}

\* the list from blockList along next comes to NULL
RegistryEnds == ~Endless(blocks, blockList, {})

\* C32: after any sequence of Add and Detach calls the registry is a finite
\* chain that holds each registered handler once, so that the scans of
\* Execute and Add come to its end.
C32_RegistryIsChain ==
    ex.pc = "idle" =>
        /\ RegistryEnds
        /\ {InRegistry[k] : k \in 1..Len(InRegistry)} = HeldRegistered

\* ------------------------------------------------------------------------
\* The notifications of Execute, read off ex.log in the behaviours of
\* SpecExec
\* ------------------------------------------------------------------------
\* C33: an Execute that called ExecuteStarting has called ExecuteStopping
\* when it returns, whatever made it return.
C33_StoppingFollowsStarting ==
    (ex.pc = "returned" /\ \E k \in LogIdx : IsEv(k, "ExecuteStarting"))
    => \E k \in LogIdx : IsEv(k, "ExecuteStopping")

\* the same for the Execute calls that return without having reported an
\* error
StoppingWhenNoError ==
    (Normal(ex) /\ \E k \in LogIdx : IsEv(k, "ExecuteStarting"))
    => \E k \in LogIdx : IsEv(k, "ExecuteStopping")

\* ------------------------------------------------------------------------
\* Two documents read one after the other with the same handlers: the host
\* calls Execute on the first, and when it has returned constructs a token
\* over the second and calls Execute again.  Execute calls curr->Reset()
\* before curr->Read( token ), and again when Read has raised an XNexus.
\* ex.given holds the sections the two documents are written from, which of
\* them is being read (stage), and the handlers as they were when the second
\* Execute was called.
\* ------------------------------------------------------------------------
ResetSections ==
    << <<"B","E","G","I","N"," ","C","H","A","R","A","C","T","E","R","S",";","D","I","M","E","N","S","I","O","N","S"," ","N","E","W","T","A","X","A"," ","N","T","A","X","=","1"," ","N","C","H","A","R","=","3",";","M","A","T","R","I","X"," ","a"," ","0","1","0",";","E","N","D",";",NL>>,
       <<"B","E","G","I","N"," ","C","H","A","R","A","C","T","E","R","S",";","D","I","M","E","N","S","I","O","N","S"," ","N","E","W","T","A","X","A"," ","N","T","A","X","=","1"," ","N","C","H","A","R","=","3",";","E","L","I","M","I","N","A","T","E"," ","2",";","M","A","T","R","I","X"," ","a"," ","0","1","0",";","E","N","D",";",NL>>,
       <<"B","E","G","I","N"," ","C","H","A","R","A","C","T","E","R","S",";","D","I","M","E","N","S","I","O","N","S"," ","N","E","W","T","A","X","A"," ","N","T","A","X","=","1"," ","N","C","H","A","R","=","3",";","M","A","T","R","I","X"," ","a"," ","0","1",";","E","N","D",";",NL>>,
       <<"B","E","G","I","N"," ","C","H","A","R","A","C","T","E","R","S",";","D","I","M","E","N","S","I","O","N","S"," ","N","E","W","T","A","X","A"," ","N","T","A","X","=","2"," ","N","C","H","A","R","=","2",";","M","A","T","R","I","X"," ","a"," ","0","1"," ","b"," ","1","0",";","E","N","D",";",NL>>,
       <<"B","E","G","I","N"," ","C","H","A","R","A","C","T","E","R","S",";","E","L","I","M","I","N","A","T","E"," ","2",";","E","N","D",";",NL>>,
       <<"B","E","G","I","N"," ","C","H","A","R","A","C","T","E","R","S",";","D","I","M","E","N","S","I","O","N","S"," ","N","C","H","A","R","=","2",";","M","A","T","R","I","X"," ","a"," ","0","1",";","E","N","D",";",NL>>,
       <<"B","E","G","I","N"," ","C","H","A","R","A","C","T","E","R","S",";","E","N","D",";",NL>> >>

ResetDoc(k) == Header \o ResetSections[k]

InitReset ==
    /\ phase = "exec"
    /\ \E first \in DOMAIN ResetSections, second \in DOMAIN ResetSections :
          /\ tk = NexusToken(ResetDoc(first))
          /\ ex = [ExecIdle EXCEPT !.given = [first |-> first, second |-> second, stage |-> 1,
                                              taxa |-> <<>>, blocks |-> <<>>]]
    /\ blockList = NULL
    /\ blocks = NewBlocks
    /\ taxa = [h \in {"T1", "T2"} |-> NewTaxa]
    /\ cb = NewCharactersBlock("T1")

\* the host goes on to the second document
AnotherExecute ==
    /\ phase = "exec" /\ ex.pc = "returned"
    /\ ex.given.stage = 1
    /\ tk' = NexusToken(ResetDoc(ex.given.second))
    /\ ex' = [ExecIdle EXCEPT !.given = [ex.given EXCEPT !.stage = 2, !.taxa = taxa, !.blocks = blocks]]
    /\ UNCHANGED <<phase, blockList, blocks, taxa, cb>>

NextReset ==
    \/ Add("C")
    \/ Execute
    \/ ExecuteLoop
    \/ ExecuteRead
    \/ ExecuteSkip
    \/ AnotherExecute

SpecReset == InitReset /\ [][NextReset]_vars

\* Execute of the second document with a CharactersBlock as constructed in
\* the place of the one that read the first document, the TaxaBlock and the
\* registry being those the second Execute met
NewHandlerRun(g) ==
    RunExecute([Machine EXCEPT
                    !.tk = NexusToken(ResetDoc(g.second)),
                    !.taxa = g.taxa,
                    !.blocks = [g.blocks EXCEPT !["C"].errormsg = NewBlocks["C"].errormsg,
                                                !["C"].isEmpty = NewBlocks["C"].isEmpty],
                    !.cb = NewCharactersBlock("T1")],
               ExecIdle)

\* the CharactersBlock read the first document and Execute of the second
\* has ended
SecondRead ==
    /\ Ended(ex)
    /\ ex.given.stage = 2
    /\ ex.given.blocks # <<>>
    /\ ex.given.blocks["C"].nexus = THIS

\* C34: a section read after Reset gives what a CharactersBlock as
\* constructed gives for it: the same calls and errors reported by Execute,
\* the same dimensions and the same matrix, whatever the handler read or
\* failed on before.
C34_ResetAsConstructed ==
    SecondRead =>
        LET w == NewHandlerRun(ex.given)
        IN  /\ ex.pc = w[2].pc
            /\ ex.log = w[2].log
            /\ cb.ntax = w[1].cb.ntax
            /\ cb.nchar = w[1].cb.nchar
            /\ cb.matrix = w[1].cb.matrix

\* ------------------------------------------------------------------------
\* An exclusion set given as text, applied to a CharactersBlock that has read
\* a section with an ELIMINATE command and character labels: the caller
\* (AssumptionsBlock::HandleExset does so) runs a SetReader of type charset
\* over the text, with the CharactersBlock as its block, and hands the set to
\* ApplyExset.  The sections have three characters labelled x, y, z, of which
\* one or none is eliminated.
\* ------------------------------------------------------------------------
ExsetLabels == <<<<"x">>, <<"y">>, <<"z">>>>

ExsetEliminates == <<<<>>, <<"E","L","I","M","I","N","A","T","E"," ","1",";">>, <<"E","L","I","M","I","N","A","T","E"," ","2",";">>, <<"E","L","I","M","I","N","A","T","E"," ","3",";">>>>

\* the matrix row: a state for every character, the eliminated one included
ExsetRow(k) == <<"0", "1", "0">>

ExsetDoc(k) ==
    Header \o <<"B","E","G","I","N"," ","C","H","A","R","A","C","T","E","R","S",";","D","I","M","E","N","S","I","O","N","S"," ","N","E","W","T","A","X","A"," ","N","T","A","X","=","1"," ","N","C","H","A","R","=","3",";">> \o ExsetEliminates[k] \o <<"C","H","A","R","L","A","B","E","L","S"," ","x"," ","y"," ","z",";","M","A","T","R","I","X"," ","a"," ">> \o ExsetRow(k) \o <<";","E","N","D",";",NL>>

InitExset ==
    /\ phase = "exec"
    /\ \E k \in DOMAIN ExsetEliminates :
          /\ tk = NexusToken(ExsetDoc(k))
          /\ ex = [ExecIdle EXCEPT !.given = [op |-> "none", arg |-> <<>>, ret |-> 0, raised |-> FALSE]]
    /\ blockList = NULL
    /\ blocks = NewBlocks
    /\ taxa = [h \in {"T1", "T2"} |-> NewTaxa]
    /\ cb = NewCharactersBlock("T1")

\* the set text that names one character: by its label, by its number
ByLabel(o) == ExsetLabels[o + 1] \o <<";">>
ByNumber(o) == Numeral(o + 1) \o <<";">>

\* SetReader( token, totalChars, s, charBlock, SetReader::charset ).Run()
\* over the text, then charBlock.ApplyExset( s ): the CharactersBlock after
\* it, what ApplyExset returned, and whether Run raised an XNexus
ExsetOfText(m, text) ==
    The({ IF Stopped(r) THEN [cb |-> r.cb, ret |-> 0, raised |-> TRUE, assert |-> FALSE]
          ELSE The({ [cb |-> a.cb, ret |-> a.ret, raised |-> FALSE, assert |-> a.assert]
                     : a \in {ApplyExset(r.cb, r.nxsset)} })
          : r \in {SetReaderRun(SetReader([m EXCEPT !.tk = NexusToken(text)]), "C", m.cb.ncharTotal,
                                [rangeBegin |-> -1, rangeEnd |-> -1, insideRange |-> FALSE,
                                 modValue |-> 0])} })

\* the section was read and its matrix is there
SectionRead == HostCalls /\ ex.pc = "returned" /\ cb.matrix.alloc /\ cb.activeChar.alloc

\* the caller excludes one character, named by label or by number
HostExsetText ==
    /\ SectionRead
    /\ \E text \in UNION {{ByLabel(o), ByNumber(o)} : o \in 0..(cb.ncharTotal - 1)} :
          \E r \in {ExsetOfText(Machine, text)} :
             /\ cb' = r.cb
             /\ ex' = IF r.assert
                      THEN [ex EXCEPT !.pc = "aborted", !.x = [thrown |-> TRUE, kind |-> "assert"]]
                      ELSE [ex EXCEPT !.given = [op |-> "Exset", arg |-> text, ret |-> r.ret,
                                                 raised |-> r.raised]]
    /\ UNCHANGED <<phase, tk, blockList, blocks, taxa>>

\* the host includes a character again
HostIncludeAgain ==
    /\ SectionRead
    /\ \E i \in 0..(cb.nchar - 1) :
          /\ ~cb.activeChar.a[i + 1]
          /\ cb' = IncludeCharacter(cb, i)
          /\ ex' = [ex EXCEPT !.given = [op |-> "IncludeCharacter", arg |-> <<>>, ret |-> 0,
                                         raised |-> FALSE]]
    /\ UNCHANGED <<phase, tk, blockList, blocks, taxa>>

NextExset ==
    \/ Add("C")
    \/ Execute
    \/ ExecuteLoop
    \/ ExecuteRead
    \/ ExecuteSkip
    \/ HostExsetText
    \/ HostIncludeAgain

SpecExset == InitExset /\ [][NextExset]_vars

\* the original indices of the characters that are not eliminated
KeptOriginals == {o \in 0..(cb.ncharTotal - 1) : ~IsEliminated(cb, o)}

\* C35: in a section with eliminated characters, excluding a character by
\* its label changes the activeChar entry that excluding it by its original
\* number changes: the two calls leave the same activeChar array and return
\* the same count.
C35_LabelAsNumber ==
    (SectionRead /\ cb.eliminated # {}) =>
        \A o \in KeptOriginals :
            LET l == ExsetOfText(Machine, ByLabel(o))
                n == ExsetOfText(Machine, ByNumber(o))
            IN  /\ l.raised = n.raised
                /\ l.cb.activeChar = n.cb.activeChar
                /\ l.ret = n.ret

\* the same in a section without eliminated characters
LabelAsNumberWhole ==
    (SectionRead /\ cb.eliminated = {}) =>
        \A o \in KeptOriginals :
            LET l == ExsetOfText(Machine, ByLabel(o))
                n == ExsetOfText(Machine, ByNumber(o))
            IN  /\ ~l.raised /\ ~n.raised
                /\ l.cb.activeChar = n.cb.activeChar
                /\ l.ret = n.ret

\* ------------------------------------------------------------------------
\* The documents of SpecOrder with two registered labels, whose matrix rows
\* may bear a label that the TaxaBlock does not hold (the third of RegLabels)
\* ------------------------------------------------------------------------
UnknownGivens ==
    {[reg |-> 2, first |-> f, later |-> l] :
        f \in [1..2 -> 1..3], l \in {<<>>} \cup [1..2 -> 1..3]}

InitUnknown ==
    /\ phase = "exec"
    /\ \E g \in UnknownGivens :
          /\ tk = NexusToken(OrderDoc(g))
          /\ ex = [ExecIdle EXCEPT !.given = g]
    /\ blockList = NULL
    /\ blocks = NewBlocks
    /\ taxa = [h \in {"T1", "T2"} |-> NewTaxa]
    /\ cb = NewCharactersBlock("T1")

SpecUnknown == InitUnknown /\ [][NextOrder]_vars

\* the first row that HandleStdMatrix refuses bears the label that is not
\* registered: on the first page, or on the later page after a first page
\* that is in order
UnknownLabelFirst(g) ==
    LET i == FirstOther(g.first, InOrder(g))
        j == FirstOther(g.later, g.first)
    IN  IF i # 0 THEN g.first[i] > g.reg
        ELSE j # 0 /\ g.later[j] > g.reg

\* C36: a row label that the TaxaBlock does not hold makes Read raise an
\* XNexus, as every other malformed input does, and Execute catches it: it
\* reports the error and returns.
C36_UnknownLabelRaisesXNexus ==
    (CharactersRead /\ UnknownLabelFirst(ex.given))
    => /\ ex.pc = "returned"
       /\ \E k \in LogIdx : /\ IsEv(k, "Raised")
                            /\ ex.log[k].a.h = "C"
                            /\ ex.log[k].a.x.kind = "XNexus"
       /\ \E k \in LogIdx : IsEv(k, "NexusError")

\* the rows of these documents that bear registered labels are treated as
\* in SpecOrder
RegisteredRowsAsBefore ==
    (CharactersRead /\ ~UnknownLabelFirst(ex.given))
    => LabelsOutcome(ex.given, DuplicateOrTaxonOrdering)

\* ------------------------------------------------------------------------
\* The storage of the cells of a DiscreteMatrix.  A DiscreteDatum holds the
\* pointer states; DiscreteDatum declares no assignment operator, and its
\* destructor deletes states.  In these behaviours ex.data is the matrix as
\* the pointers its cells hold (0 is NULL, k > 0 the k-th array that was
\* allocated) and ex.heap the arrays: whether each is still allocated and
\* what it holds.  The matrix has two columns; the host sets cells, calls
\* DuplicateRow( 0, 2 ) and in the end deletes the matrix.
\* ------------------------------------------------------------------------
MaxAllocs == 3

StoreCols == 2

NoStoreCall == [op |-> "none", i |-> 0, j |-> 0]

InitStore ==
    /\ phase = "store"
    /\ tk = NexusToken(<<>>)
    /\ blockList = NULL
    /\ blocks = NewBlocks
    /\ taxa = [h \in {"T1", "T2"} |-> NewTaxa]
    /\ cb = NewCharactersBlock("T1")
    /\ \E nrows \in 1..2 :
          ex = [pc |-> "idle", given |-> NoStoreCall, x |-> NoX,
                data |-> [i \in 1..nrows |-> [j \in 1..StoreCols |-> 0]],
                heap |-> <<>>, duplicated |-> FALSE]

StoreCalls == phase = "store" /\ ex.pc = "idle"

\* the array a pointer leads to is allocated
Allocated(heap, p) == p # 0 /\ heap[p].live

\* what a cell encodes: the array its pointer leads to
Encoding(e, i, j) ==
    IF e.data[i + 1][j + 1] = 0 THEN NullStates ELSE e.heap[e.data[i + 1][j + 1]].a

\* delete [] p
Delete(heap, p) == [heap EXCEPT ![p] = [live |-> FALSE, a |-> <<>>]]

\* a function that sets d.states to a new array holding a, or to NULL when
\* a is NullStates, and deletes the array d.states led to (SetState,
\* AddState, SetGap, SetMissing); to read or to delete an array that was
\* deleted already is undefined
Replace(e, op, i, j, a) ==
    LET p == e.data[i + 1][j + 1]
        freed == IF p = 0 THEN e.heap ELSE Delete(e.heap, p)
        heap == IF a = NullStates THEN freed ELSE Append(freed, [live |-> TRUE, a |-> a])
    IN  IF p # 0 /\ ~Allocated(e.heap, p)
        THEN [e EXCEPT !.pc = "undefined", !.x = [thrown |-> TRUE, kind |-> "undefined"],
                       !.given = [op |-> op, i |-> i, j |-> j]]
        ELSE [e EXCEPT !.heap = heap,
                       !.data[i + 1][j + 1] = IF a = NullStates THEN 0 ELSE Len(heap),
                       !.given = [op |-> op, i |-> i, j |-> j]]

\* the contents of the array of cell ( i, j ) as the functions read them
Held(e, i, j) ==
    IF Allocated(e.heap, e.data[i + 1][j + 1]) THEN Encoding(e, i, j) ELSE NullStates

StoreSetState ==
    /\ StoreCalls /\ Len(ex.heap) < MaxAllocs
    /\ \E i \in 0..(Len(ex.data) - 1), j \in 0..(StoreCols - 1), value \in CellValues :
          ex' = Replace(ex, "SetState", i, j, DatumSetState(Held(ex, i, j), value))
    /\ UNCHANGED <<phase, tk, blockList, blocks, taxa, cb>>

StoreAddState ==
    /\ StoreCalls /\ Len(ex.heap) < MaxAllocs
    /\ \E i \in 0..(Len(ex.data) - 1), j \in 0..(StoreCols - 1), value \in CellValues :
          /\ DatumGetNumStates(Held(ex, i, j)) < 2
          /\ ex' = Replace(ex, "AddState", i, j, DatumAddState(Held(ex, i, j), value))
    /\ UNCHANGED <<phase, tk, blockList, blocks, taxa, cb>>

StoreSetGap ==
    /\ StoreCalls /\ Len(ex.heap) < MaxAllocs
    /\ \E i \in 0..(Len(ex.data) - 1), j \in 0..(StoreCols - 1) :
          ex' = Replace(ex, "SetGap", i, j, <<0>>)
    /\ UNCHANGED <<phase, tk, blockList, blocks, taxa, cb>>

StoreSetMissing ==
    /\ StoreCalls
    /\ \E i \in 0..(Len(ex.data) - 1), j \in 0..(StoreCols - 1) :
          ex' = Replace(ex, "SetMissing", i, j, NullStates)
    /\ UNCHANGED <<phase, tk, blockList, blocks, taxa, cb>>

\* DuplicateRow( 0, 2 ): startCol = 0, endCol = ncols - 1; AddRows gives the
\* new row cells with states = NULL; data[1][col] = data[0][col] copies the
\* member states, the pointer
StoreDuplicateRow ==
    /\ StoreCalls
    /\ ex' = [ex EXCEPT !.data = <<ex.data[1], ex.data[1]>>,
                        !.duplicated = TRUE,
                        !.given = [op |-> "DuplicateRow", i |-> 0, j |-> 0]]
    /\ UNCHANGED <<phase, tk, blockList, blocks, taxa, cb>>

\* ~DiscreteMatrix: delete [] data[i] runs ~DiscreteDatum for the cells of
\* the row, which deletes states when it is not NULL
RECURSIVE ReleaseCells(_, _)
ReleaseCells(e, k) ==
    LET i == (k \div StoreCols) + 1
        j == (k % StoreCols) + 1
        p == e.data[i][j]
    IN  IF k >= Len(e.data) * StoreCols THEN [e EXCEPT !.pc = "released"]
        ELSE IF p = 0 THEN ReleaseCells(e, k + 1)
        ELSE IF ~Allocated(e.heap, p)
             THEN [e EXCEPT !.pc = "undefined", !.x = [thrown |-> TRUE, kind |-> "undefined"]]
        ELSE ReleaseCells([e EXCEPT !.heap = Delete(e.heap, p)], k + 1)

StoreRelease ==
    /\ StoreCalls
    /\ ex' = ReleaseCells([ex EXCEPT !.given = [op |-> "Release", i |-> 0, j |-> 0]], 0)
    /\ UNCHANGED <<phase, tk, blockList, blocks, taxa, cb>>

NextStore ==
    \/ StoreSetState
    \/ StoreAddState
    \/ StoreSetGap
    \/ StoreSetMissing
    \/ StoreDuplicateRow
    \/ StoreRelease

SpecStore == InitStore /\ [][NextStore]_vars

StoreCells(e) == (0..(Len(e.data) - 1)) \X (0..(StoreCols - 1))

\* every cell leads to an allocated array or to none
CellsReadable(e) ==
    \A c \in StoreCells(e) : e.data[c[1] + 1][c[2] + 1] = 0 \/ Allocated(e.heap, e.data[c[1] + 1][c[2] + 1])

\* every array is deleted
AllReleased(e) == \A p \in 1..Len(e.heap) : ~e.heap[p].live

\* C37: after DuplicateRow the cells are independent: a call of SetState,
\* AddState, SetMissing or SetGap for one cell leaves what every other cell
\* encodes as it was, and the deletion of the matrix deletes the array of
\* every cell, each once.
C37_CopiesIndependent ==
    [][(ex.duplicated /\ ex.pc = "idle")
       => /\ ex'.given.op \in {"SetState", "AddState", "SetMissing", "SetGap"}
             => /\ ex'.pc = "idle"
                /\ CellsReadable(ex')
                /\ \A c \in StoreCells(ex) :
                      c # <<ex'.given.i, ex'.given.j>>
                      => Encoding(ex', c[1], c[2]) = Encoding(ex, c[1], c[2])
          /\ ex'.given.op = "Release"
             => ex'.pc = "released" /\ AllReleased(ex')]_vars

\* the same for a matrix whose rows were never duplicated
CellsOwnTheirArrays ==
    [][(~ex.duplicated /\ ~ex'.duplicated /\ ex.pc = "idle")
       => /\ ex'.pc \in {"idle", "released"}
          /\ ex'.given.op # "Release" => CellsReadable(ex')
          /\ \A c \in StoreCells(ex) :
                (ex'.given.op # "Release" /\ c # <<ex'.given.i, ex'.given.j>>)
                => Encoding(ex', c[1], c[2]) = Encoding(ex, c[1], c[2])
          /\ ex'.given.op = "Release" => AllReleased(ex')]_vars

\* ------------------------------------------------------------------------
\* A CHARACTERS section with NEWTAXA whose TAXLABELS command gives fewer
\* labels than NTAX, as many, or more.  ex.given is [ntax, labels]: the
\* number declared and the number of labels written.
\* ------------------------------------------------------------------------
TaxlabelsGivens == UNION {{[ntax |-> n, labels |-> k] : k \in 0..(n + 2)} : n \in 1..3}

TaxlabelsDoc(g) ==
    Header \o <<"B","E","G","I","N"," ","C","H","A","R","A","C","T","E","R","S",";","D","I","M","E","N","S","I","O","N","S"," ","N","E","W","T","A","X","A"," ","N","T","A","X","=">> \o <<Digits[g.ntax + 1]>> \o <<" ","N","C","H","A","R","=","2",";","T","A","X","L","A","B","E","L","S">> \o LabelsText(g.labels, 1) \o <<";","E","N","D",";",NL>>

InitTaxlabels ==
    /\ phase = "exec"
    /\ \E g \in TaxlabelsGivens :
          /\ tk = NexusToken(TaxlabelsDoc(g))
          /\ ex = [ExecIdle EXCEPT !.given = g]
    /\ blockList = NULL
    /\ blocks = NewBlocks
    /\ taxa = [h \in {"T1", "T2"} |-> NewTaxa]
    /\ cb = NewCharactersBlock("T1")

SpecTaxlabels == InitTaxlabels /\ [][NextOrder]_vars

TooManyLabelsError == "Number of taxon labels exceeds NTAX specified in DIMENSIONS command"

\* C38: a TAXLABELS command with more labels than the NTAX of the DIMENSIONS
\* command raises an error at the first label in excess, and the TaxaBlock
\* never holds more labels than NTAX.
C38_ExcessLabelRaises ==
    /\ Len(taxa["T1"].taxonLabels) <= ex.given.ntax
    /\ (Ended(ex) /\ TookSection /\ ex.given.labels > ex.given.ntax)
       => RaisedByCharacters(TooManyLabelsError)

\* what the code does: the error comes with the second label in excess, and
\* the TaxaBlock holds at most NTAX + 1 labels
SecondExcessLabelRaises ==
    /\ Len(taxa["T1"].taxonLabels) <= ex.given.ntax + 1
    /\ (Ended(ex) /\ TookSection)
       => IF ex.given.labels > ex.given.ntax + 1
          THEN RaisedByCharacters(TooManyLabelsError)
          ELSE Normal(ex) /\ Len(taxa["T1"].taxonLabels) = ex.given.labels

\* ------------------------------------------------------------------------
\* The translation between original and current character indices, asked
\* for by the host after Execute has read a section of SpecChar
\* ------------------------------------------------------------------------
InitIndex ==
    /\ phase = "exec"
    /\ tk \in {NexusToken(d) : d \in CharDocs}
    /\ blockList = NULL
    /\ blocks = NewBlocks
    /\ taxa = [h \in {"T1", "T2"} |-> NewTaxa]
    /\ cb = NewCharactersBlock("T1")
    /\ ex = [ExecIdle EXCEPT !.given = NoCall]

\* the host asks after Execute has returned and the map is there
IndexCalls == phase = "exec" /\ ex.pc = "returned" /\ cb.charPos.alloc

AfterIndexCall(op, i, r) ==
    /\ ex' = IF r.assert THEN [ex EXCEPT !.pc = "aborted", !.x = [thrown |-> TRUE, kind |-> "assert"]]
             ELSE IF r.undefined
             THEN [ex EXCEPT !.pc = "undefined", !.x = [thrown |-> TRUE, kind |-> "undefined"]]
             ELSE [ex EXCEPT !.given = [op |-> op, arg |-> {i}, ret |-> r.ret]]
    /\ UNCHANGED <<phase, tk, blockList, blocks, taxa, cb>>

HostGetOrigCharIndex ==
    /\ IndexCalls
    /\ \E j \in 0..(cb.nchar - 1) : AfterIndexCall("GetOrigCharIndex", j, GetOrigCharIndex(cb, j))

HostGetCharPos ==
    /\ IndexCalls
    /\ \E o \in 0..(cb.ncharTotal - 1) : AfterIndexCall("GetCharPos", o, GetCharPosChecked(cb, o))

NextIndex ==
    \/ Add("C")
    \/ Execute
    \/ ExecuteLoop
    \/ ExecuteRead
    \/ ExecuteSkip
    \/ HostGetOrigCharIndex
    \/ HostGetCharPos

SpecIndex == InitIndex /\ [][NextIndex]_vars

Returned(r) == ~r.assert /\ ~r.undefined

\* GetOrigCharIndex and GetCharPos are inverse to each other between the
\* current indices 0..nchar-1 and the original indices not eliminated
Bijection(c) ==
    /\ \A j \in 0..(c.nchar - 1) :
          LET o == GetOrigCharIndex(c, j)
          IN  /\ Returned(o)
              /\ o.ret \in KeptOriginals
              /\ GetCharPosChecked(c, o.ret) = [ret |-> j, assert |-> FALSE, undefined |-> FALSE]
    /\ \A o \in KeptOriginals :
          LET j == GetCharPosChecked(c, o)
          IN  /\ Returned(j)
              /\ j.ret \in 0..(c.nchar - 1)
              /\ GetOrigCharIndex(c, j.ret) = [ret |-> o, assert |-> FALSE, undefined |-> FALSE]

\* the number of DIMENSIONS commands that the section gave
DimensionsGiven ==
    Cardinality({k \in LogIdx : IsEv(k, "Command") /\ ex.log[k].a = CharWords.DIMENSIONS})

\* C39: the translation between original and current character indices is
\* a bijection between the original indices that are not eliminated and the
\* current indices 0..nchar-1: GetCharPos( GetOrigCharIndex( j ) ) = j for
\* every current index j, and GetOrigCharIndex( GetCharPos( o ) ) = o for
\* every original index o that is not eliminated.
C39_IndexBijection == IndexCalls => Bijection(cb)

\* the same for the sections with one DIMENSIONS command
BijectionOneDimensions == (IndexCalls /\ DimensionsGiven = 1) => Bijection(cb)

====
